---------------------------- MODULE Spec2Model ----------------------------
(***************************************************************************)
(* A model of v_fixtures (src/src/lib.rs): the fixture text format         *)
(* (trim_indent, Fixture::parse_with_default_path, parse_before_after),    *)
(* the renderer (FixtureRenderer) and the on-disk layer (TempFixture).     *)
(*                                                                         *)
(* A Rust `String` is modelled as a sequence of one-character strings.     *)
(* Every character of the model is ASCII, so a byte offset of the source   *)
(* is a position of the sequence.                                          *)
(***************************************************************************)
EXTENDS Naturals, Integers, Sequences, FiniteSets, TLC

VARIABLES
    pc,        \* the call of the scenario that was made last
    text,      \* the &str argument of the scenario
    dpath,     \* the default_path argument of parse_with_default_path
    prev,      \* the String the call before the last one worked on
    parsed,    \* what the last parse returned: a Fixture, or a panic
    fixture,   \* the Fixture (its `files`) handed to the renderer
    renderer,  \* the FixtureRenderer under construction
    out,       \* the String the last call returned
    disk,      \* the filesystem: its directories and its files
    temp,      \* the TempFixture handle
    obs,       \* what the last read of the TempFixture returned
    nmut       \* how many times the files under the root were changed

vars == <<pc, text, dpath, prev, parsed, fixture, renderer, out,
          disk, temp, obs, nmut>>

\* The variables of the text scenarios, and those of the disk scenario.
textVars == <<text, dpath, prev, parsed, renderer, out>>
diskVars == <<disk, temp, obs, nmut>>

(***************************************************************************)
(* Bounds of the model.                                                    *)
(***************************************************************************)
MaxIndentLen == 6
MaxParseTokens == 6
MaxFiles == 2
MaxPatterns == 2
MaxRedactLine == 3
MaxSplitTokens == 5
MaxDiskFiles == 2
MaxMutations == 2
MaxEqFiles == 2
MaxHandles == 2
MaxLifeSteps == 3
MaxDirFiles == 3

(***************************************************************************)
(* Strings.                                                                *)
(***************************************************************************)
\* All sequences over S of length at most n.
StringsUpTo(S, n) == UNION {[1..k -> S] : k \in 0..n}

\* char::is_whitespace, on the characters of the model.
IsWhitespace(c) == c \in {" ", "\n", "\t", "\r"}

\* str::starts_with / the test of str::strip_prefix.
StartsWith(s, p) == Len(s) >= Len(p) /\ SubSeq(s, 1, Len(p)) = p

\* str::ends_with.
EndsWith(s, p) == Len(s) >= Len(p) /\ SubSeq(s, Len(s) - Len(p) + 1, Len(s)) = p

\* The suffix of s from (1-based) position i on: &s[i-1..].
From(s, i) == SubSeq(s, i, Len(s))

\* str::contains(pattern).
Contains(s, p) == \E i \in 1..(Len(s) + 1) : StartsWith(From(s, i), p)

\* Position of the first "\n" of s, 0 when there is none.
FirstNewline(s) ==
    IF \E i \in 1..Len(s) : s[i] = "\n"
    THEN CHOOSE i \in 1..Len(s) : s[i] = "\n" /\ \A j \in 1..(i - 1) : s[j] # "\n"
    ELSE 0

\* str::split_inclusive('\n'): the lines of s, each with its terminator.
RECURSIVE SplitInclusive(_)
SplitInclusive(s) ==
    IF s = <<>> THEN <<>>
    ELSE LET n == FirstNewline(s)
         IN  IF n = 0 THEN <<s>>
             ELSE <<SubSeq(s, 1, n)>> \o SplitInclusive(From(s, n + 1))

\* What str::lines does to one item of split_inclusive: strip "\n", then "\r".
StripLineEnd(line) ==
    IF EndsWith(line, <<"\n">>)
    THEN LET l == SubSeq(line, 1, Len(line) - 1)
         IN  IF EndsWith(l, <<"\r">>) THEN SubSeq(l, 1, Len(l) - 1) ELSE l
    ELSE line

\* str::lines.
Lines(s) ==
    LET parts == SplitInclusive(s)
    IN  [i \in 1..Len(parts) |-> StripLineEnd(parts[i])]

\* Number of leading whitespace characters of s.
RECURSIVE LeadingWs(_)
LeadingWs(s) ==
    IF s # <<>> /\ IsWhitespace(s[1]) THEN 1 + LeadingWs(Tail(s)) ELSE 0

\* str::trim_start.
TrimStart(s) == From(s, LeadingWs(s) + 1)

\* Number of trailing whitespace characters of s.
RECURSIVE TrailingWs(_)
TrailingWs(s) ==
    IF s # <<>> /\ IsWhitespace(s[Len(s)])
    THEN 1 + TrailingWs(SubSeq(s, 1, Len(s) - 1)) ELSE 0

\* str::trim_end.
TrimEnd(s) == SubSeq(s, 1, Len(s) - TrailingWs(s))

\* str::trim.
Trim(s) == TrimEnd(TrimStart(s))

\* Number of leading ' ' characters of s.
RECURSIVE LeadingSpaces(_)
LeadingSpaces(s) ==
    IF s # <<>> /\ s[1] = " " THEN 1 + LeadingSpaces(Tail(s)) ELSE 0

\* str::trim_start_matches(' ').
TrimStartSpaces(s) == From(s, LeadingSpaces(s) + 1)

\* Concatenation of a sequence of strings: Iterator::collect::<String>().
RECURSIVE Concat(_)
Concat(ss) == IF ss = <<>> THEN <<>> ELSE Head(ss) \o Concat(Tail(ss))

\* Iterator::min over a finite set of naturals, with unwrap_or(0).
MinOrZero(S) == IF S = {} THEN 0 ELSE CHOOSE m \in S : \A x \in S : m <= x

(***************************************************************************)
(* trim_indent                                                             *)
(***************************************************************************)
\* Variant of LineIndent that measures with trim() instead of trim_start().
LineIndentTrimBoth(line) == Len(line) - Len(Trim(line))

\* |it| it.len() - it.trim_start().len()
LineIndent(line) == Len(line) - Len(TrimStart(line))

\* The indent trim_indent removes from t (t already without its first "\n").
CommonIndent(t) ==
    LET ls == Lines(t)
    IN  MinOrZero({LineIndent(ls[i]) : i \in {j \in 1..Len(ls) : Trim(ls[j]) # <<>>}})

trim_indent(s) ==
    LET t      == IF StartsWith(s, <<"\n">>) THEN From(s, 2) ELSE s
        indent == CommonIndent(t)
        parts  == SplitInclusive(t)
    IN  Concat([i \in 1..Len(parts) |->
                  IF Len(parts[i]) <= indent
                  THEN TrimStartSpaces(parts[i])
                  ELSE From(parts[i], indent + 1)])

(***************************************************************************)
(* Fixture::parse_with_default_path                                        *)
(***************************************************************************)
\* The marker token "//-".
Marker == <<"/", "/", "-">>

\* A call that returned a Fixture, and a call that panicked.
Returned(files) == [ok |-> TRUE, files |-> files, panic |-> ""]
Panicked(msg) == [ok |-> FALSE, files |-> <<>>, panic |-> msg]
\* No call made yet.
NoResult == [ok |-> FALSE, files |-> <<>>, panic |-> "not called"]

FixtureFile(path, t) == [path |-> path, text |-> t]

\* Option<String>.
None == [some |-> FALSE, v |-> <<>>]
Some(v) == [some |-> TRUE, v |-> v]

\* Number of leading non-whitespace characters of s.
RECURSIVE LeadingNonWs(_)
LeadingNonWs(s) ==
    IF s # <<>> /\ ~IsWhitespace(s[1]) THEN 1 + LeadingNonWs(Tail(s)) ELSE 0

\* meta.split_whitespace().next(): the first whitespace-delimited token.
FirstToken(meta) ==
    LET m == TrimStart(meta)
    IN  IF m = <<>> THEN None ELSE Some(SubSeq(m, 1, LeadingNonWs(m)))

\* Variant of ParseFinish that forgets the file still open at end of input.
ParseFinishNoFlush(files, current_path, current_text) == Returned(files)

\* "Save last file": lines 179-184.
ParseFinish(files, current_path, current_text) ==
    IF current_path.some
    THEN Returned(Append(files, FixtureFile(current_path.v, current_text)))
    ELSE Returned(files)

\* Variant of PathAccepted without the leading-slash assertion.
PathAcceptedAny(path) == TRUE

\* assert!(path.starts_with('/')): line 172.
PathAccepted(path) == StartsWith(path, <<"/">>)

\* Variant of ParseLoop that also accumulates the lines that come before the
\* first marker line, so that they end up in the first file.
RECURSIVE ParseLoopKeepsPreamble(_, _, _, _, _)
ParseLoopKeepsPreamble(lines, i, files, current_path, current_text) ==
    IF i > Len(lines) THEN ParseFinish(files, current_path, current_text)
    ELSE
      LET line == lines[i] IN
      IF StartsWith(line, Marker)
      THEN LET saved == IF current_path.some
                        THEN Append(files, FixtureFile(current_path.v, current_text))
                        ELSE files
               taken == IF current_path.some THEN <<>> ELSE current_text
               path  == FirstToken(Trim(From(line, Len(Marker) + 1)))
           IN  IF ~path.some THEN Panicked("fixture meta must have a path")
               ELSE IF ~PathAccepted(path.v)
                    THEN Panicked("fixture path must start with /")
                    ELSE ParseLoopKeepsPreamble(lines, i + 1, saved, Some(path.v), taken)
      ELSE ParseLoopKeepsPreamble(lines, i + 1, files, current_path, current_text \o line)

\* Variant of ParseLoop that accumulates each line without its terminator, as
\* a loop over fixture.lines() would.
RECURSIVE ParseLoopOverLines(_, _, _, _, _)
ParseLoopOverLines(lines, i, files, current_path, current_text) ==
    IF i > Len(lines) THEN ParseFinish(files, current_path, current_text)
    ELSE
      LET line == StripLineEnd(lines[i]) IN
      IF StartsWith(line, Marker)
      THEN LET saved == IF current_path.some
                        THEN Append(files, FixtureFile(current_path.v, current_text))
                        ELSE files
               taken == IF current_path.some THEN <<>> ELSE current_text
               path  == FirstToken(Trim(From(line, Len(Marker) + 1)))
           IN  IF ~path.some THEN Panicked("fixture meta must have a path")
               ELSE IF ~PathAccepted(path.v)
                    THEN Panicked("fixture path must start with /")
                    ELSE ParseLoopOverLines(lines, i + 1, saved, Some(path.v), taken)
      ELSE IF current_path.some
           THEN ParseLoopOverLines(lines, i + 1, files, current_path, current_text \o line)
           ELSE ParseLoopOverLines(lines, i + 1, files, current_path, current_text)

\* The loop over fixture.split_inclusive('\n'), from line i on: lines 159-177.
RECURSIVE ParseLoop(_, _, _, _, _)
ParseLoop(lines, i, files, current_path, current_text) ==
    IF i > Len(lines) THEN ParseFinish(files, current_path, current_text)
    ELSE
      LET line == lines[i] IN
      IF StartsWith(line, Marker)
      THEN LET rest   == From(line, Len(Marker) + 1)
               saved  == IF current_path.some
                         THEN Append(files, FixtureFile(current_path.v, current_text))
                         ELSE files
               taken  == IF current_path.some THEN <<>> ELSE current_text
               meta   == Trim(rest)
               path   == FirstToken(meta)
           IN  IF ~path.some THEN Panicked("fixture meta must have a path")
               ELSE IF ~PathAccepted(path.v)
                    THEN Panicked("fixture path must start with /")
                    ELSE ParseLoop(lines, i + 1, saved, Some(path.v), taken)
      ELSE IF current_path.some
           THEN ParseLoop(lines, i + 1, files, current_path, current_text \o line)
           ELSE ParseLoop(lines, i + 1, files, current_path, current_text)

parse_with_default_path(s, default_path) ==
    LET normalized == trim_indent(s)
    IN  IF ~Contains(normalized, Marker)
        THEN Returned(<<FixtureFile(default_path, normalized)>>)
        ELSE ParseLoop(SplitInclusive(normalized), 1, <<>>, None, <<>>)

\* "/main.rs"
MainRs == <<"/", "m", "a", "i", "n", ".", "r", "s">>

\* Fixture::parse
parse(s) == parse_with_default_path(s, MainRs)

(***************************************************************************)
(* FixtureRenderer                                                         *)
(***************************************************************************)
\* "[REDACTED]", the default redact_message.
Redacted == <<"[", "R", "E", "D", "A", "C", "T", "E", "D", "]">>

\* FixtureRenderer::new.  lines_to_redact is a Vec the code only tests for
\* emptiness and membership: a set of line numbers.
NewRenderer ==
    [normalize_git_hashes |-> FALSE,
     lines_to_redact      |-> {},
     redact_message       |-> Redacted,
     path_patterns        |-> <<>>,
     always_show_filepath |-> FALSE]

\* regex::Regex::is_match for the patterns of the model: a literal, matched
\* anywhere in the path, or "^" and a literal, matched at its start.
RegexIsMatch(re, path) ==
    IF StartsWith(re, <<"^">>) THEN StartsWith(path, Tail(re)) ELSE Contains(path, re)

\* FixtureRenderer::regex: a leading '!' makes an exclusion pattern.
regex(r, pattern) ==
    LET p == IF StartsWith(pattern, <<"!">>)
             THEN [regex |-> Tail(pattern), exclude |-> TRUE]
             ELSE [regex |-> pattern, exclude |-> FALSE]
    IN  [r EXCEPT !.path_patterns = Append(@, p)]

\* Variant of matches_path in which a matching inclusion pattern is decided
\* before the exclusion patterns are looked at.
matches_path_inclusion_first(r, path) ==
    LET ps == r.path_patterns
        inclusions == {i \in 1..Len(ps) : ~ps[i].exclude}
        exclusions == {i \in 1..Len(ps) : ps[i].exclude}
    IN  IF ps = <<>> THEN TRUE
        ELSE IF \E i \in inclusions : RegexIsMatch(ps[i].regex, path) THEN TRUE
        ELSE IF inclusions # {} THEN FALSE
        ELSE ~\E i \in exclusions : RegexIsMatch(ps[i].regex, path)

\* FixtureRenderer::matches_path
matches_path(r, path) ==
    LET ps == r.path_patterns
        inclusions == {i \in 1..Len(ps) : ~ps[i].exclude}
        exclusions == {i \in 1..Len(ps) : ps[i].exclude}
    IN  IF ps = <<>> THEN TRUE
        ELSE IF \E i \in exclusions : RegexIsMatch(ps[i].regex, path) THEN FALSE
        ELSE IF inclusions # {} THEN \E i \in inclusions : RegexIsMatch(ps[i].regex, path)
        ELSE TRUE

\* Iterator::filter(|f| self.matches_path(&f.path)).collect()
RECURSIVE FilterFiles(_, _)
FilterFiles(r, files) ==
    IF files = <<>> THEN <<>>
    ELSE IF matches_path(r, Head(files).path)
         THEN <<Head(files)>> \o FilterFiles(r, Tail(files))
         ELSE FilterFiles(r, Tail(files))

\* Variant of RenderFile that appends the newline without looking at the text.
RenderFileAlwaysNewline(file) ==
    Marker \o <<" ">> \o file.path \o <<"\n">> \o file.text \o <<"\n">>

\* One file of the multi-file rendering: lines 641-647.
RenderFile(file) ==
    Marker \o <<" ">> \o file.path \o <<"\n">> \o file.text
        \o (IF EndsWith(file.text, <<"\n">>) THEN <<>> ELSE <<"\n">>)

\* A render_raw that never takes the single-file branch.
render_raw_always_headers(r, files) ==
    LET kept == FilterFiles(r, files)
    IN  Concat([i \in 1..Len(kept) |-> RenderFile(kept[i])])

\* FixtureRenderer::render_raw
render_raw(r, files) ==
    LET kept == FilterFiles(r, files)
    IN  IF Len(kept) = 1 /\ ~r.always_show_filepath
        THEN kept[1].text
        ELSE Concat([i \in 1..Len(kept) |-> RenderFile(kept[i])])

\* The regex of line 607: seven '|', a space, then 7 to 40 hex digits.
MinHashLen == 7
MaxHashLen == 40
HashPrefix == <<"|", "|", "|", "|", "|", "|", "|", " ">>
HashPlaceholder == <<"[", "h", "a", "s", "h", "]">>
IsHex(c) == c \in {"0", "1", "2", "3", "4", "5", "6", "7", "8", "9",
                   "a", "b", "c", "d", "e", "f"}

\* Number of leading hex digits of s.
RECURSIVE LeadingHex(_)
LeadingHex(s) ==
    IF s # <<>> /\ IsHex(s[1]) THEN 1 + LeadingHex(Tail(s)) ELSE 0

\* hash_regex.replace(&result, "||||||| [hash]"): the first match only.
RECURSIVE NormalizeFirstHash(_)
NormalizeFirstHash(s) ==
    IF s = <<>> THEN <<>>
    ELSE LET n == IF StartsWith(s, HashPrefix)
                  THEN LeadingHex(From(s, Len(HashPrefix) + 1)) ELSE 0
             m == IF n > MaxHashLen THEN MaxHashLen ELSE n
         IN  IF n >= MinHashLen
             THEN HashPrefix \o HashPlaceholder \o From(s, Len(HashPrefix) + m + 1)
             ELSE <<s[1]>> \o NormalizeFirstHash(Tail(s))

\* hash_regex.replace_all(&result, "||||||| [hash]"): leftmost, greedy,
\* non-overlapping matches.
RECURSIVE NormalizeHashes(_)
NormalizeHashes(s) ==
    IF s = <<>> THEN <<>>
    ELSE LET n == IF StartsWith(s, HashPrefix)
                  THEN LeadingHex(From(s, Len(HashPrefix) + 1)) ELSE 0
             m == IF n > MaxHashLen THEN MaxHashLen ELSE n
         IN  IF n >= MinHashLen
             THEN HashPrefix \o HashPlaceholder
                    \o NormalizeHashes(From(s, Len(HashPrefix) + m + 1))
             ELSE <<s[1]>> \o NormalizeHashes(Tail(s))

\* [String]::join("\n")
RECURSIVE JoinNewline(_)
JoinNewline(ls) ==
    IF ls = <<>> THEN <<>>
    ELSE IF Len(ls) = 1 THEN ls[1]
    ELSE ls[1] \o <<"\n">> \o JoinNewline(Tail(ls))

\* A redaction that counts lines from 0.
RedactLinesFromZero(r, s) ==
    LET ls == Lines(s)
    IN  JoinNewline([i \in 1..Len(ls) |->
                       IF (i - 1) \in r.lines_to_redact THEN r.redact_message ELSE ls[i]])

\* A redaction that puts back the terminator of a text that ends with one.
RedactLinesKeepTerminator(r, s) ==
    LET ls == Lines(s)
    IN  JoinNewline([i \in 1..Len(ls) |->
                       IF i \in r.lines_to_redact THEN r.redact_message ELSE ls[i]])
            \o (IF EndsWith(s, <<"\n">>) THEN <<"\n">> ELSE <<>>)

\* The line redaction of lines 612-626.
RedactLines(r, s) ==
    LET ls == Lines(s)
    IN  JoinNewline([i \in 1..Len(ls) |->
                       IF i \in r.lines_to_redact THEN r.redact_message ELSE ls[i]])

\* FixtureRenderer::render
render(r, files) ==
    LET raw    == render_raw(r, files)
        hashed == IF r.normalize_git_hashes THEN NormalizeHashes(raw) ELSE raw
    IN  IF r.lines_to_redact # {} THEN RedactLines(r, hashed) ELSE hashed

\* The value of `result` when line 611 is reached: the rendering before the
\* line redaction.
render_unredacted(r, files) == render([r EXCEPT !.lines_to_redact = {}], files)

\* Fixture::render
fixture_render(files) == render(NewRenderer, files)

(***************************************************************************)
(* parse_before_after                                                      *)
(***************************************************************************)
Separator == <<"\n", "=", ">", "\n">>

\* str::split(pattern): the matches are taken leftmost first and do not
\* overlap.
RECURSIVE Split(_, _)
Split(s, p) ==
    IF Contains(s, p)
    THEN LET i == CHOOSE k \in 1..Len(s) :
                    /\ StartsWith(From(s, k), p)
                    /\ \A j \in 1..(k - 1) : ~StartsWith(From(s, j), p)
         IN  <<SubSeq(s, 1, i - 1)>> \o Split(From(s, i + Len(p)), p)
    ELSE <<s>>

NoSplit == [ok |-> FALSE, before |-> <<>>, after |-> <<>>, panic |-> "not called"]

parse_before_after(s) ==
    LET parts == Split(trim_indent(s), Separator)
    IN  IF Len(parts) # 2
        THEN [ok |-> FALSE, before |-> <<>>, after |-> <<>>,
              panic |-> "expected exactly one => separator in before/after fixture"]
        ELSE LET before == parse(parts[1])
                 after  == parse(parts[2])
             IN  IF ~before.ok
                 THEN [ok |-> FALSE, before |-> <<>>, after |-> <<>>, panic |-> before.panic]
                 ELSE IF ~after.ok
                 THEN [ok |-> FALSE, before |-> <<>>, after |-> <<>>, panic |-> after.panic]
                 ELSE [ok |-> TRUE, before |-> before.files, after |-> after.files,
                       panic |-> ""]

(***************************************************************************)
(* Fixture::file and assert_fixture_eq                                     *)
(***************************************************************************)
\* Fixture::file: the first file at `path`.
file(files, path) ==
    IF \E i \in 1..Len(files) : files[i].path = path
    THEN LET i == CHOOSE k \in 1..Len(files) :
                    /\ files[k].path = path
                    /\ \A j \in 1..(k - 1) : files[j].path # path
         IN  [some |-> TRUE, v |-> files[i]]
    ELSE [some |-> FALSE, v |-> FixtureFile(<<>>, <<>>)]

\* The loop of lines 463-477 from file i of expected on.
RECURSIVE CompareFiles(_, _, _)
CompareFiles(expected, actual, i) ==
    IF i > Len(expected) THEN [ok |-> TRUE, panic |-> ""]
    ELSE LET actual_file == file(actual, expected[i].path)
         IN  IF ~actual_file.some
             THEN [ok |-> FALSE, panic |-> "missing file in actual"]
             ELSE IF expected[i].text # actual_file.v.text
             THEN [ok |-> FALSE, panic |-> "content mismatch"]
             ELSE CompareFiles(expected, actual, i + 1)

\* An assert_fixture_eq without the comparison of the file counts.
assert_fixture_eq_no_count(expected, actual) == CompareFiles(expected, actual, 1)

assert_fixture_eq(expected, actual) ==
    IF Len(expected) # Len(actual)
    THEN [ok |-> FALSE, panic |-> "fixture file count mismatch"]
    ELSE CompareFiles(expected, actual, 1)

(***************************************************************************)
(* The filesystem, and TempFixture                                         *)
(*                                                                         *)
(* A location is the sequence of the names that lead to it from "/".  The  *)
(* filesystem holds the set of its directories and, for each regular file, *)
(* its content: text, or bytes that are not UTF-8.                         *)
(***************************************************************************)
Utf8(data) == [utf8 |-> TRUE, data |-> data]
NotUtf8 == [utf8 |-> FALSE, data |-> <<>>]

\* std::env::temp_dir(), and the directory tempfile creates in it.
TempBase == << <<"t", "m", "p">> >>
TempRoot == Append(TempBase, <<"v", "_", "1">>)

\* The filesystem before the test starts.
EmptyDisk == [dirs |-> {<<>>, TempBase}, files |-> <<>>]

\* No TempFixture yet.
NoTemp == [alive |-> FALSE, root |-> <<>>, files |-> <<>>, cwd |-> None]
NoObs == [op |-> "none"]

DiskIdle ==
    /\ disk = EmptyDisk
    /\ temp = NoTemp
    /\ obs = NoObs
    /\ nmut = 0

\* str::trim_start_matches('/')
RECURSIVE TrimStartSlashes(_)
TrimStartSlashes(s) ==
    IF s # <<>> /\ s[1] = "/" THEN TrimStartSlashes(Tail(s)) ELSE s

\* Position of the first "/" of s, 0 when there is none.
FirstSlash(s) ==
    IF \E i \in 1..Len(s) : s[i] = "/"
    THEN CHOOSE i \in 1..Len(s) : s[i] = "/" /\ \A j \in 1..(i - 1) : s[j] # "/"
    ELSE 0

\* Path::components: the names of a relative path string (repeated and
\* trailing separators give no component).
RECURSIVE Components(_)
Components(s) ==
    IF s = <<>> THEN <<>>
    ELSE LET n == FirstSlash(s)
         IN  IF n = 0 THEN <<s>>
             ELSE (IF n = 1 THEN <<>> ELSE <<SubSeq(s, 1, n - 1)>>)
                    \o Components(From(s, n + 1))

Parent(loc) == IF loc = <<>> THEN <<>> ELSE SubSeq(loc, 1, Len(loc) - 1)

\* Where one name leads from a directory.
Step(loc, name) ==
    IF name = <<".">> THEN loc
    ELSE IF name = <<".", ".">> THEN Parent(loc)
    ELSE Append(loc, name)

\* The kernel's path walk from `loc`: every location walked through must be a
\* directory.
RECURSIVE Resolve(_, _, _)
Resolve(d, loc, names) ==
    IF names = <<>> THEN [ok |-> TRUE, loc |-> loc]
    ELSE IF loc \notin d.dirs THEN [ok |-> FALSE, loc |-> loc]
    ELSE Resolve(d, Step(loc, Head(names)), Tail(names))

\* fs::create_dir_all(loc/names): fails on a name that is a regular file.
RECURSIVE CreateDirAll(_, _, _)
CreateDirAll(d, loc, names) ==
    IF names = <<>> THEN [ok |-> TRUE, disk |-> d]
    ELSE LET next == Step(loc, Head(names))
         IN  IF next \in DOMAIN d.files THEN [ok |-> FALSE, disk |-> d]
             ELSE CreateDirAll([d EXCEPT !.dirs = @ \cup {next}], next, Tail(names))

\* A write that leaves an existing file as it is.
PutFileKeepExisting(d, loc, content) ==
    [d EXCEPT !.files = [l \in (DOMAIN @) \cup {loc} |->
                            IF l \in DOMAIN @ THEN @[l] ELSE content]]

\* The files of d with the file at loc holding `content`.
PutFile(d, loc, content) ==
    [d EXCEPT !.files = [l \in (DOMAIN @) \cup {loc} |->
                            IF l = loc THEN content ELSE @[l]]]

\* The files of d without the file at loc.
RemoveFile(d, loc) ==
    [d EXCEPT !.files = [l \in (DOMAIN @) \ {loc} |-> @[l]]]

IsPrefix(p, l) == Len(p) <= Len(l) /\ SubSeq(l, 1, Len(p)) = p

\* Dropping the TempDir: the directory and all it holds are removed.
RemoveTree(d, root) ==
    [dirs  |-> {l \in d.dirs : ~IsPrefix(root, l)},
     files |-> [l \in {k \in DOMAIN d.files : ~IsPrefix(root, k)} |-> d.files[l]]]

\* root.join(relative.trim_start_matches('/')), create_dir_all(parent) and
\* fs::write: lines 197-201 and 330-334.
WriteAt(d, root, relative, content) ==
    LET names == Components(TrimStartSlashes(relative))
    IN  IF names = <<>>
        THEN [ok |-> FALSE, disk |-> d, panic |-> "failed to write file"]
        ELSE LET made == CreateDirAll(d, root, SubSeq(names, 1, Len(names) - 1))
                 at   == Resolve(made.disk, root, names)
             IN  IF ~made.ok
                 THEN [ok |-> FALSE, disk |-> made.disk,
                       panic |-> "failed to create parent dirs"]
                 ELSE IF ~at.ok \/ at.loc \in made.disk.dirs
                 THEN [ok |-> FALSE, disk |-> made.disk, panic |-> "failed to write file"]
                 ELSE [ok |-> TRUE, disk |-> PutFile(made.disk, at.loc, content),
                       panic |-> ""]

\* A loop that skips a file whose path an earlier file of the fixture has.
RECURSIVE WriteFilesDeduplicated(_, _, _, _)
WriteFilesDeduplicated(d, root, files, i) ==
    IF i > Len(files) THEN [ok |-> TRUE, disk |-> d, panic |-> ""]
    ELSE IF \E j \in 1..(i - 1) : files[j].path = files[i].path
    THEN WriteFilesDeduplicated(d, root, files, i + 1)
    ELSE LET w == WriteAt(d, root, files[i].path, Utf8(files[i].text))
         IN  IF w.ok THEN WriteFilesDeduplicated(w.disk, root, files, i + 1) ELSE w

\* The loop of write_to_tempdir_with_prefix, from file i on: lines 196-202.
RECURSIVE WriteFiles(_, _, _, _)
WriteFiles(d, root, files, i) ==
    IF i > Len(files) THEN [ok |-> TRUE, disk |-> d, panic |-> ""]
    ELSE LET w == WriteAt(d, root, files[i].path, Utf8(files[i].text))
         IN  IF w.ok THEN WriteFiles(w.disk, root, files, i + 1) ELSE w

\* Fixture::write_to_tempdir_with_prefix, tempdir() having created `root`.
\* A panic unwinds through the TempDir, which removes the directory.
write_to_tempdir_in(d, files, root) ==
    LET created == [d EXCEPT !.dirs = @ \cup {root}]
        written == WriteFiles(created, root, files, 1)
    IN  IF written.ok
        THEN [ok |-> TRUE, disk |-> written.disk,
              temp |-> [alive |-> TRUE, root |-> root, files |-> files,
                        cwd |-> None]]
        ELSE [ok |-> FALSE, disk |-> RemoveTree(written.disk, root),
              temp |-> NoTemp]

\* Fixture::write_to_tempdir, for a test that materializes one fixture.
write_to_tempdir(d, files) == write_to_tempdir_in(d, files, TempRoot)

\* The names tempdir() may give to a directory: the prefix and a suffix it
\* draws at random.
TempNames == {<<"v", "_", "1">>, <<"v", "_", "2">>, <<"v", "_", "3">>}

\* A tempdir() that does not look at what exists.
AnyTempRoots(d) == {Append(TempBase, n) : n \in TempNames}

\* The directories tempdir() can create: it draws names until one does not
\* exist.
FreshTempRoots(d) ==
    {r \in {Append(TempBase, n) : n \in TempNames} :
        r \notin d.dirs /\ r \notin DOMAIN d.files}

\* TempFixture::cwd
cwd(t, path) == [t EXCEPT !.cwd = Some(TrimStartSlashes(path))]

\* An effective_cwd that ignores cwd.
effective_cwd_root(d, t) == [ok |-> TRUE, loc |-> t.root]

\* TempFixture::effective_cwd, as the location the joined path leads to.
effective_cwd(d, t) ==
    IF t.cwd.some THEN Resolve(d, t.root, Components(t.cwd.v))
    ELSE [ok |-> TRUE, loc |-> t.root]

\* TempFixture::path: root.join(relative.trim_start_matches('/')).
temp_path(t, relative) == t.root \o Components(TrimStartSlashes(relative))

\* A read that resolves its argument against the effective cwd.
read_to_string_scoped(d, t, relative) ==
    LET base == effective_cwd(d, t)
        at   == Resolve(d, base.loc, Components(TrimStartSlashes(relative)))
    IN  IF base.ok /\ at.ok /\ at.loc \in DOMAIN d.files /\ d.files[at.loc].utf8
        THEN [ok |-> TRUE, text |-> d.files[at.loc].data]
        ELSE [ok |-> FALSE, text |-> <<>>]

\* TempFixture::path and fs::read_to_string: lines 314-321.
read_to_string(d, t, relative) ==
    LET at == Resolve(d, t.root, Components(TrimStartSlashes(relative)))
    IN  IF at.ok /\ at.loc \in DOMAIN d.files /\ d.files[at.loc].utf8
        THEN [ok |-> TRUE, text |-> d.files[at.loc].data]
        ELSE [ok |-> FALSE, text |-> <<>>]

\* The map of read_all from file i of the recorded files on: lines 368-375.
\* The first read that fails panics.
RECURSIVE ReadOriginals(_, _, _)
ReadOriginals(d, t, i) ==
    IF i > Len(t.files) THEN [ok |-> TRUE, files |-> <<>>]
    ELSE LET r == read_to_string(d, t, t.files[i].path)
         IN  IF ~r.ok THEN [ok |-> FALSE, files |-> <<>>]
             ELSE LET rest == ReadOriginals(d, t, i + 1)
                  IN  IF rest.ok
                      THEN [ok |-> TRUE,
                            files |-> <<FixtureFile(t.files[i].path, r.text)>> \o rest.files]
                      ELSE rest

\* A read_all that leaves out the files it cannot read.
RECURSIVE ReadOriginalsLenient(_, _, _)
ReadOriginalsLenient(d, t, i) ==
    IF i > Len(t.files) THEN [ok |-> TRUE, files |-> <<>>]
    ELSE LET r    == read_to_string(d, t, t.files[i].path)
             rest == ReadOriginalsLenient(d, t, i + 1)
         IN  [ok |-> TRUE,
              files |-> (IF r.ok THEN <<FixtureFile(t.files[i].path, r.text)>> ELSE <<>>)
                           \o rest.files]

read_all_lenient(d, t) == ReadOriginalsLenient(d, t, 1)

\* TempFixture::read_all
read_all(d, t) == ReadOriginals(d, t, 1)

\* The byte value of a character of the model.
Ord(c) ==
    CASE c = "." -> 46 [] c = "/" -> 47 [] c = "_" -> 95
      [] c = "a" -> 97 [] c = "b" -> 98 [] c = "c" -> 99 [] c = "d" -> 100
      [] c = "m" -> 109 [] c = "p" -> 112 [] c = "t" -> 116 [] c = "v" -> 118
      [] c = "1" -> 49 [] c = "2" -> 50 [] c = "3" -> 51
      [] c = "e" -> 101 [] c = "g" -> 103 [] c = "i" -> 105 [] c = "n" -> 110
      [] c = "o" -> 111 [] c = "r" -> 114 [] OTHER -> 0

\* a.cmp(b) = Less, for strings.
RECURSIVE StrLess(_, _)
StrLess(a, b) ==
    IF b = <<>> THEN FALSE
    ELSE IF a = <<>> THEN TRUE
    ELSE IF a[1] = b[1] THEN StrLess(Tail(a), Tail(b))
    ELSE Ord(a[1]) < Ord(b[1])

\* files.sort_by(|a, b| a.path.cmp(&b.path)), for files of distinct paths (the
\* order in which WalkDir yields them is then immaterial).
RECURSIVE SortByPath(_)
SortByPath(S) ==
    IF S = {} THEN <<>>
    ELSE LET first == CHOOSE f \in S : \A g \in S \ {f} : StrLess(f.path, g.path)
         IN  <<first>> \o SortByPath(S \ {first})

\* Path::to_string_lossy of a relative path: its names joined by "/".
RECURSIVE JoinSlash(_)
JoinSlash(names) ==
    IF names = <<>> THEN <<>>
    ELSE IF Len(names) = 1 THEN names[1]
    ELSE names[1] \o <<"/">> \o JoinSlash(Tail(names))

\* format!("/{}", path.strip_prefix(&base))
RelativeStr(base, loc) == <<"/">> \o JoinSlash(SubSeq(loc, Len(base) + 1, Len(loc)))

\* TempFixture::read_all_from_disk: the walk keeps the regular files below
\* the base (the base itself when it is a file), and drops those that
\* read_to_string cannot read; an error of the walk gives no entry.
read_all_from_disk(d, t) ==
    LET base    == effective_cwd(d, t)
        entries == IF base.ok
                   THEN {l \in DOMAIN d.files : IsPrefix(base.loc, l)}
                   ELSE {}
        read    == {l \in entries : d.files[l].utf8}
    IN  SortByPath({FixtureFile(RelativeStr(base.loc, l), d.files[l].data) : l \in read})

\* Path::to_string_lossy of an absolute location.
PathStr(loc) == <<"/">> \o JoinSlash(loc)

DotGit == <<".", "g", "i", "t">>

\* Fixture::read_from_directory(path), path given as a location.  The walk
\* leaves out every entry whose path contains ".git" and does not descend
\* into it; as the path of an entry begins with the path of the directory
\* that holds it, the entries kept are those whose own path does not contain
\* ".git".
read_from_directory(d, path) ==
    IF path \notin d.dirs /\ path \notin DOMAIN d.files
    THEN None
    ELSE LET entries == {l \in DOMAIN d.files :
                           IsPrefix(path, l) /\ ~Contains(PathStr(l), DotGit)}
             read    == {l \in entries : d.files[l].utf8}
         IN  Some(SortByPath({FixtureFile(RelativeStr(path, l), d.files[l].data) :
                                 l \in read}))

(***************************************************************************)
(* SpecParse: a text is parsed, and the Fixture it gives is rendered.      *)
(***************************************************************************)
ParseTokens == {Marker, <<"/">>, <<" ">>, <<"\n">>, <<"a">>}

ParseTexts == {Concat(ts) : ts \in StringsUpTo(ParseTokens, MaxParseTokens)}

\* "/p"
CustomPath == <<"/", "p">>

InitParse ==
    /\ text \in ParseTexts
    /\ dpath \in {MainRs, CustomPath}
    /\ pc = "start"
    /\ prev = <<>>
    /\ parsed = NoResult
    /\ fixture = <<>>
    /\ renderer = NewRenderer
    /\ out = <<>>
    /\ DiskIdle

\* let f = Fixture::parse_with_default_path(text, dpath);
\* prev records the normalized text the parser works on (line 141).
ParseText ==
    /\ pc = "start"
    /\ parsed' = parse_with_default_path(text, dpath)
    /\ prev' = trim_indent(text)
    /\ pc' = "parsed"
    /\ UNCHANGED <<diskVars, text, dpath, fixture, renderer, out>>

\* let s = f.render();
RenderParsed ==
    /\ pc = "parsed"
    /\ parsed.ok
    /\ fixture' = parsed.files
    /\ out' = fixture_render(parsed.files)
    /\ pc' = "rendered"
    /\ UNCHANGED <<diskVars, text, dpath, prev, parsed, renderer>>

NextParse == ParseText \/ RenderParsed

SpecParse == InitParse /\ [][NextParse]_vars

\* The positions of s at which a marker line begins.
MarkerPositions(s) ==
    {i \in 1..Len(s) : (i = 1 \/ s[i - 1] = "\n") /\ StartsWith(From(s, i), Marker)}

\* C8 as stated: a text with no marker line parses to exactly one file, at the
\* default path, holding the normalized text.
C8_SingleFileMode ==
    (pc = "parsed" /\ MarkerPositions(prev) = {})
        => (parsed.ok /\ parsed.files = <<FixtureFile(dpath, prev)>>)

\* C2 as stated: for a text with no marker line, rendering the parsed fixture
\* gives back the normalized text.
C2_SingleFileIdentity ==
    (pc = "rendered" /\ MarkerPositions(prev) = {}) => out = prev

\* What the code does for C8 and C2: the single-file mode is taken when the
\* normalized text does not contain "//-" anywhere.
SingleFileWhenNoMarkerToken ==
    (pc \in {"parsed", "rendered"} /\ ~Contains(prev, Marker))
        => /\ parsed.ok /\ parsed.files = <<FixtureFile(dpath, prev)>>
           /\ pc = "rendered" => out = prev

\* The k-th smallest element of a finite set of numbers.
Kth(S, k) == CHOOSE x \in S : Cardinality({y \in S : y < x}) = k - 1

\* The position of the first non-blank character after the marker that begins
\* at position i and on the same line; 0 when the line has none.
TokenStart(s, i) ==
    LET cand == {j \in (i + Len(Marker))..Len(s) :
                    /\ ~IsWhitespace(s[j])
                    /\ \A k \in (i + Len(Marker))..(j - 1) :
                          IsWhitespace(s[k]) /\ s[k] # "\n"}
    IN  IF cand = {} THEN 0 ELSE CHOOSE j \in cand : TRUE

\* The maximal run of non-blank characters that begins at position j.
TokenFrom(s, j) ==
    LET e == CHOOSE k \in j..Len(s) :
                /\ \A m \in j..k : ~IsWhitespace(s[m])
                /\ (k = Len(s) \/ IsWhitespace(s[k + 1]))
    IN  SubSeq(s, j, e)

\* C9: the parse of a text with marker lines fails exactly when some marker
\* line has no token after the marker or a token that does not start with "/";
\* otherwise it yields one file per marker line, in source order, whose path
\* is the first whitespace-delimited token after the marker.
C9_OneFilePerMarker ==
    (pc = "parsed" /\ MarkerPositions(prev) # {}) =>
        LET ms == MarkerPositions(prev)
            wellFormed == \A i \in ms :
                             /\ TokenStart(prev, i) # 0
                             /\ prev[TokenStart(prev, i)] = "/"
        IN  IF wellFormed
            THEN /\ parsed.ok
                 /\ Len(parsed.files) = Cardinality(ms)
                 /\ \A k \in 1..Len(parsed.files) :
                       /\ parsed.files[k].path
                            = TokenFrom(prev, TokenStart(prev, Kth(ms, k)))
                       /\ StartsWith(parsed.files[k].path, <<"/">>)
            ELSE ~parsed.ok

\* A text with two marker lines parsed into two files with different paths.
C9_Witness ==
    /\ pc = "parsed"
    /\ Cardinality(MarkerPositions(prev)) = 2
    /\ parsed.ok
    /\ Len(parsed.files) = 2
    /\ parsed.files[1].path # parsed.files[2].path

\* A text with a marker line whose token lacks the leading "/": the parse fails.
C9_WitnessRejected ==
    /\ pc = "parsed"
    /\ MarkerPositions(prev) # {}
    /\ parsed.panic = "fixture path must start with /"


\* The position of the last character of the line that holds position i: the
\* first "\n" at or after i, or the end of s.
LineEnd(s, i) ==
    LET nl == {j \in i..Len(s) : s[j] = "\n"}
    IN  IF nl = {} THEN Len(s) ELSE Kth(nl, 1)

\* The text between the end of the k-th marker line of s and the beginning of
\* the next marker line, or the end of s after the last marker line.
ContentAfterMarker(s, k) ==
    LET ms    == MarkerPositions(s)
        first == LineEnd(s, Kth(ms, k)) + 1
        last  == IF k < Cardinality(ms) THEN Kth(ms, k + 1) - 1 ELSE Len(s)
    IN  SubSeq(s, first, last)

\* C23: when a text with marker lines parses, the text of the k-th file is
\* exactly the stretch of the normalized text from the end of the k-th marker
\* line to the beginning of the next marker line or the end of the input,
\* verbatim and with its line terminators; nothing that precedes the first
\* marker line and nothing on a marker line enters any file's text.
C23_ParserAccumulation ==
    (pc = "parsed" /\ parsed.ok /\ MarkerPositions(prev) # {}) =>
        /\ Len(parsed.files) = Cardinality(MarkerPositions(prev))
        /\ \A k \in 1..Len(parsed.files) :
              k <= Cardinality(MarkerPositions(prev))
                  => parsed.files[k].text = ContentAfterMarker(prev, k)

\* A text with a line before its first marker line, parsed into one file whose
\* text is a last line without a terminator: the line before the marker is in
\* no file.
C23_Witness ==
    /\ pc = "parsed"
    /\ parsed.ok
    /\ prev = <<"a", "\n", "/", "/", "-", "/", "\n", "a">>
    /\ parsed.files = <<FixtureFile(<<"/">>, <<"a">>)>>

(***************************************************************************)
(* SpecSplit: parse_before_after on texts built from separator lines,      *)
(* file headers and content.                                               *)
(***************************************************************************)
SplitTokens == {<<"=", ">">>, <<"\n">>, <<"a">>, <<" ">>, Marker \o <<" ", "/", "a", "\n">>}

SplitTexts == {Concat(ts) : ts \in StringsUpTo(SplitTokens, MaxSplitTokens)}

InitSplit ==
    /\ text \in SplitTexts
    /\ dpath = MainRs
    /\ pc = "start"
    /\ prev = <<>>
    /\ parsed = NoSplit
    /\ fixture = <<>>
    /\ renderer = NewRenderer
    /\ out = <<>>
    /\ DiskIdle

\* let (before, after) = parse_before_after(text);
\* prev records the normalized text that is split (line 425).
ParseBeforeAfter ==
    /\ pc = "start"
    /\ parsed' = parse_before_after(text)
    /\ prev' = trim_indent(text)
    /\ pc' = "split"
    /\ UNCHANGED <<diskVars, text, dpath, fixture, renderer, out>>

NextSplit == ParseBeforeAfter

SpecSplit == InitSplit /\ [][NextSplit]_vars

\* The number of separator lines of s: lines that are exactly "=>".
SeparatorLines(s) ==
    Cardinality({i \in 1..Len(Lines(s)) : Lines(s)[i] = <<"=", ">">>})

\* C7: parse_before_after fails whenever the normalized text holds the
\* separator line ("=>" alone on its line) zero times or more than once, and
\* a call that succeeds returns the parses of the text before and of the text
\* after the one separator line.
C7_ExactlyOneSeparator ==
    pc = "split" =>
        /\ SeparatorLines(prev) # 1 => ~parsed.ok
        /\ parsed.ok =>
              \E i \in 1..Len(prev) :
                  /\ StartsWith(From(prev, i), Separator)
                  /\ parsed.before = parse(SubSeq(prev, 1, i - 1)).files
                  /\ parsed.after = parse(From(prev, i + Len(Separator))).files

\* What the code does guarantee: a call that succeeds found a separator line,
\* and a text without one fails.
SplitNeedsSeparatorLine ==
    pc = "split" /\ parsed.ok => SeparatorLines(prev) >= 1

\* A text with exactly one separator line, between two lines, is split.
SplitOneSeparatorWitness ==
    /\ pc = "split"
    /\ parsed.ok
    /\ SeparatorLines(prev) = 1
    /\ Len(parsed.before) = 1
    /\ Len(parsed.after) = 1

(***************************************************************************)
(* SpecRoundTrip: a Fixture value is rendered, and the rendering parsed.   *)
(***************************************************************************)
\* Paths and texts of the Fixture values (the fields are public: any string).
RoundTripPaths ==
    {<<"/", "a">>, <<"/", "b">>, <<"b">>, <<"/", "a", " ", "b">>}

RoundTripTexts ==
    {<<>>,
     <<"a">>,
     <<"a", "\n">>,
     <<"\n">>,
     <<"\n", "a", "\n">>,
     <<" ", "a", "\n">>,
     <<"a", "\n", "\n">>,
     <<"/", "/", "-", "\n">>,
     <<"a", "/", "/", "-", "\n">>,
     <<"a", "\n", "/", "/", "-", " ", "/", "b", "\n">>}

RoundTripFiles ==
    {FixtureFile(p, t) : p \in RoundTripPaths, t \in RoundTripTexts}

InitRoundTrip ==
    /\ fixture \in StringsUpTo(RoundTripFiles, MaxFiles)
    /\ pc = "start"
    /\ text = <<>>
    /\ dpath = MainRs
    /\ prev = <<>>
    /\ parsed = NoResult
    /\ renderer = NewRenderer
    /\ out = <<>>
    /\ DiskIdle

\* let s = f.render();
RenderFixture ==
    /\ pc = "start"
    /\ out' = fixture_render(fixture)
    /\ pc' = "rendered"
    /\ UNCHANGED <<diskVars, text, dpath, prev, parsed, fixture, renderer>>

\* let g = Fixture::parse(&s);
ReparseRendered ==
    /\ pc = "rendered"
    /\ parsed' = parse(out)
    /\ prev' = trim_indent(out)
    /\ pc' = "reparsed"
    /\ UNCHANGED <<diskVars, text, dpath, fixture, renderer, out>>

NextRoundTrip == RenderFixture \/ ReparseRendered

SpecRoundTrip == InitRoundTrip /\ [][NextRoundTrip]_vars

\* No line of any file's text begins with the marker token.
NoMarkerLines(files) ==
    \A i \in 1..Len(files) : MarkerPositions(files[i].text) = {}

\* Every path starts with "/" and holds no whitespace, as the paths of a
\* parsed Fixture do.
WellFormedPaths(files) ==
    \A i \in 1..Len(files) :
        /\ StartsWith(files[i].path, <<"/">>)
        /\ \A k \in 1..Len(files[i].path) : ~IsWhitespace(files[i].path[k])

\* C1 as stated: a multi-file Fixture none of whose texts has a line beginning
\* with "//-" is given back by parsing its rendering (read with the paths of
\* the data model: a leading "/", no whitespace).
C1_RoundTrip ==
    (pc = "reparsed" /\ Len(fixture) >= 2 /\ NoMarkerLines(fixture)
        /\ WellFormedPaths(fixture))
        => parsed = Returned(fixture)

\* Every text ends with a newline.
NewlineTerminated(files) ==
    \A i \in 1..Len(files) : EndsWith(files[i].text, <<"\n">>)

\* C1 amended: the round trip holds for a multi-file Fixture in which,
\* besides no text having a line beginning with "//-", every path starts with
\* "/" and contains no whitespace and every text ends with a newline.
C1_RoundTripNewlineTerminated ==
    (pc = "reparsed" /\ Len(fixture) >= 2 /\ NoMarkerLines(fixture)
        /\ WellFormedPaths(fixture) /\ NewlineTerminated(fixture))
        => parsed = Returned(fixture)

\* Two files with different paths and different texts went round.
C1_Witness ==
    /\ pc = "reparsed"
    /\ Len(fixture) = 2
    /\ NoMarkerLines(fixture)
    /\ WellFormedPaths(fixture) /\ NewlineTerminated(fixture)
    /\ fixture[1].path # fixture[2].path
    /\ fixture[1].text # fixture[2].text
    /\ Contains(fixture[1].text, <<"a">>)
    /\ parsed = Returned(fixture)


\* No text is empty.
NonEmptyTexts(files) ==
    \A i \in 1..Len(files) : files[i].text # <<>>

\* The Fixture values C24 is about: at least two files, every path with a
\* leading "/" and without whitespace, every text non-empty, ending with a
\* newline and without "//-" at the start of a line.
Restricted(files) ==
    /\ Len(files) >= 2
    /\ WellFormedPaths(files)
    /\ NonEmptyTexts(files)
    /\ NewlineTerminated(files)
    /\ NoMarkerLines(files)

\* C24: for a restricted Fixture f, the rendering is the marker lines and the
\* texts one after the other with nothing added, and Fixture::parse of the
\* rendering returns f: the same files, in the same order, with the same
\* paths and texts.
C24_RestrictedRoundTrip ==
    (pc = "reparsed" /\ Restricted(fixture)) =>
        /\ out = Concat([i \in 1..Len(fixture) |->
                          Marker \o <<" ">> \o fixture[i].path \o <<"\n">>
                              \o fixture[i].text])
        /\ parsed.ok
        /\ Len(parsed.files) = Len(fixture)
        /\ \A i \in 1..Len(fixture) :
              i <= Len(parsed.files)
                  => /\ parsed.files[i].path = fixture[i].path
                     /\ parsed.files[i].text = fixture[i].text

\* A restricted Fixture of two files, one of whose texts has several lines and
\* holds "//-" inside a line, went round.
C24_Witness ==
    /\ pc = "reparsed"
    /\ Restricted(fixture)
    /\ Len(fixture) = 2
    /\ fixture[1].text = <<"a", "/", "/", "-", "\n">>
    /\ fixture[2].text = <<"\n", "a", "\n">>
    /\ fixture[1].path # fixture[2].path
    /\ parsed = Returned(fixture)

(***************************************************************************)
(* SpecRender: a FixtureRenderer is built by chained calls and consumed by *)
(* render.                                                                 *)
(***************************************************************************)
PathA == <<"/", "a">>
PathB == <<"/", "b">>
PathBA == <<"/", "b", "/", "a">>

\* "||||||| 0123abc\n": a diff3 conflict marker with a commit hash.
HashLine == HashPrefix \o <<"0", "1", "2", "3", "a", "b", "c", "\n">>

\* A run of 41 hex digits, one more than the regex takes.
LongHex == [i \in 1..(MaxHashLen + 1) |-> "c"]

RenderFixtures ==
    {<<>>,
     <<FixtureFile(PathA, <<>>)>>,
     <<FixtureFile(PathA, <<"\n">>)>>,
     <<FixtureFile(PathA, <<"a", "\n", "b", "\n">>)>>,
     <<FixtureFile(PathA, <<"a", "\n", "\n">>)>>,
     <<FixtureFile(PathA, <<"a">>), FixtureFile(PathB, <<"b", "\n">>)>>,
     <<FixtureFile(PathA, <<"a", "\n">>), FixtureFile(PathBA, <<"b">>),
       FixtureFile(PathB, <<>>)>>,
     <<FixtureFile(PathA, HashLine \o <<"a", "\n">>), FixtureFile(PathB, <<"b", "\n">>)>>,
     <<FixtureFile(PathA, HashLine \o <<"|">> \o HashPrefix \o LongHex \o <<"\n">>
                            \o HashPrefix \o <<"0", "1", "2", "3", "a", "b", "\n">>)>>}

\* The arguments given to regex().
PatternArgs ==
    {<<"a">>, <<"b">>, <<"^", "/", "b">>,
     <<"!", "a">>, <<"!", "b">>, <<"!", "^", "/", "b">>}

\* A redact message that hash normalization would change.
HashMessage == HashPrefix \o <<"0", "1", "2", "3", "a", "b", "c">>

\* "[TS]", a custom redact message.
CustomMessage == <<"[", "T", "S", "]">>

InitRender ==
    /\ fixture \in RenderFixtures
    /\ renderer = NewRenderer
    /\ pc = "building"
    /\ text = <<>>
    /\ dpath = MainRs
    /\ prev = <<>>
    /\ parsed = NoResult
    /\ out = <<>>
    /\ DiskIdle

\* .regex(pattern)
AddRegex ==
    /\ pc = "building"
    /\ Len(renderer.path_patterns) < MaxPatterns
    /\ \E pattern \in PatternArgs : renderer' = regex(renderer, pattern)
    /\ UNCHANGED <<diskVars, pc, text, dpath, prev, parsed, fixture, out>>

\* .redact_lines(lines)
SetRedactLines ==
    /\ pc = "building"
    /\ \E lines \in SUBSET (1..MaxRedactLine) :
          renderer' = [renderer EXCEPT !.lines_to_redact = lines]
    /\ UNCHANGED <<diskVars, pc, text, dpath, prev, parsed, fixture, out>>

\* .redact_message(message)
SetRedactMessage ==
    /\ pc = "building"
    /\ \E message \in {CustomMessage, HashMessage} :
          renderer' = [renderer EXCEPT !.redact_message = message]
    /\ UNCHANGED <<diskVars, pc, text, dpath, prev, parsed, fixture, out>>

\* .normalize_git_hashes()
SetNormalizeGitHashes ==
    /\ pc = "building"
    /\ renderer' = [renderer EXCEPT !.normalize_git_hashes = TRUE]
    /\ UNCHANGED <<diskVars, pc, text, dpath, prev, parsed, fixture, out>>

\* .always_show_filepath()
SetAlwaysShowFilepath ==
    /\ pc = "building"
    /\ renderer' = [renderer EXCEPT !.always_show_filepath = TRUE]
    /\ UNCHANGED <<diskVars, pc, text, dpath, prev, parsed, fixture, out>>

\* .render(): prev records `result` as it is before the line redaction.
Render ==
    /\ pc = "building"
    /\ out' = render(renderer, fixture)
    /\ prev' = render_unredacted(renderer, fixture)
    /\ pc' = "rendered"
    /\ UNCHANGED <<diskVars, text, dpath, parsed, fixture, renderer>>

NextRender ==
    \/ AddRegex
    \/ SetRedactLines
    \/ SetRedactMessage
    \/ SetNormalizeGitHashes
    \/ SetAlwaysShowFilepath
    \/ Render

SpecRender == InitRender /\ [][NextRender]_vars

\* The filtering rule of the spec, over the patterns as a collection.
Included(patterns, path) ==
    LET P == {patterns[i] : i \in 1..Len(patterns)}
    IN  \/ P = {}
        \/ /\ \A q \in P : q.exclude => ~RegexIsMatch(q.regex, path)
           /\ \/ \A q \in P : q.exclude
              \/ \E q \in P : ~q.exclude /\ RegexIsMatch(q.regex, path)

\* The marker line render emits for a file at `path`.
HeaderLine(path) == Marker \o <<" ">> \o path \o <<"\n">>

\* C5: a file is part of the rendering exactly when no patterns are
\* configured, or its path matches no exclusion pattern and (there are no
\* inclusion patterns or it matches one of them), in whatever order the
\* patterns were added.
C5_PathFiltering ==
    \A i \in 1..Len(fixture) :
        /\ matches_path(renderer, fixture[i].path)
              <=> Included(renderer.path_patterns, fixture[i].path)
        /\ (pc = "rendered" /\ renderer.always_show_filepath)
              => (Contains(prev, HeaderLine(fixture[i].path))
                    <=> Included(renderer.path_patterns, fixture[i].path))

\* A path matched by an exclusion pattern and by an inclusion pattern added
\* after it is left out of the rendering, while another file is kept.
C5_Witness ==
    /\ pc = "rendered"
    /\ renderer.always_show_filepath
    /\ Len(renderer.path_patterns) = 2
    /\ renderer.path_patterns[1].exclude /\ ~renderer.path_patterns[2].exclude
    /\ \E i, j \in 1..Len(fixture) :
          /\ RegexIsMatch(renderer.path_patterns[1].regex, fixture[i].path)
          /\ RegexIsMatch(renderer.path_patterns[2].regex, fixture[i].path)
          /\ ~Contains(out, HeaderLine(fixture[i].path))
          /\ Contains(out, HeaderLine(fixture[j].path))

\* C6 as stated: when the redacted line numbers are lines of the rendering,
\* the redacted output has as many lines as the unredacted one, and every line
\* whose number is not in the redact set is the same in both.
C6_RedactionPreservesOtherLines ==
    (pc = "rendered" /\ renderer.lines_to_redact # {}
        /\ \A k \in renderer.lines_to_redact : k <= Len(Lines(prev))) =>
        /\ Len(Lines(out)) = Len(Lines(prev))
        /\ \A i \in 1..Len(Lines(prev)) :
              i \notin renderer.lines_to_redact
                 => (i <= Len(Lines(out)) /\ Lines(out)[i] = Lines(prev)[i])

\* What the code does for C6: the claim holds unless the unredacted rendering
\* ends with an empty line that is not redacted.
RedactionPreservesUnlessTrailingEmptyLine ==
    (pc = "rendered" /\ renderer.lines_to_redact # {}
        /\ ~(Lines(prev) # <<>> /\ Lines(prev)[Len(Lines(prev))] = <<>>
               /\ Len(Lines(prev)) \notin renderer.lines_to_redact)) =>
        /\ Len(Lines(out)) = Len(Lines(prev))
        /\ \A i \in 1..Len(Lines(prev)) :
              i \notin renderer.lines_to_redact => Lines(out)[i] = Lines(prev)[i]

\* The files of the fixture that survive the path filter, in fixture order.
Surviving == SelectSeq(fixture, LAMBDA f : Included(renderer.path_patterns, f.path))

\* A marker line, the text, and a newline when the text does not end with one.
MarkedBlock(f) ==
    HeaderLine(f.path) \o f.text
        \o (IF f.text # <<>> /\ f.text[Len(f.text)] = "\n" THEN <<>> ELSE <<"\n">>)

\* Neither hash normalization nor line redaction is configured.
NoPostProcessing == ~renderer.normalize_git_hashes /\ renderer.lines_to_redact = {}

\* C12: when exactly one file survives filtering and always_show_filepath is
\* off, render emits that file's text verbatim; in every other case it emits,
\* for each surviving file in fixture order, the line "//- <path>", the text,
\* and one newline when the text does not already end with a newline.
C12_RenderingMode ==
    pc = "rendered" /\ NoPostProcessing =>
        IF Len(Surviving) = 1 /\ ~renderer.always_show_filepath
        THEN out = Surviving[1].text
        ELSE out = Concat([i \in 1..Len(Surviving) |-> MarkedBlock(Surviving[i])])

\* Of several files one survives the filter and is rendered without a marker
\* line.
C12_Witness ==
    /\ pc = "rendered"
    /\ NoPostProcessing
    /\ ~renderer.always_show_filepath
    /\ Len(fixture) > 1
    /\ Len(Surviving) = 1
    /\ out = Surviving[1].text
    /\ ~Contains(out, Marker)

\* Several files survive and the text of one does not end with a newline.
RenderingModeMultiWitness ==
    /\ pc = "rendered"
    /\ NoPostProcessing
    /\ Len(Surviving) > 1
    /\ \E i \in 1..Len(Surviving) : ~EndsWith(Surviving[i].text, <<"\n">>)
    /\ out = Concat([i \in 1..Len(Surviving) |-> MarkedBlock(Surviving[i])])

\* The rendering as it is without hash normalization and without redaction.
Unnormalized ==
    render([renderer EXCEPT !.normalize_git_hashes = FALSE, !.lines_to_redact = {}],
           fixture)

\* The positions of s where the conflict marker "||||||| " is followed by at
\* least seven hex digits.
HashPositions(s) ==
    {i \in 1..Len(s) :
        /\ StartsWith(From(s, i), <<"|", "|", "|", "|", "|", "|", "|", " ">>)
        /\ \A j \in (i + 8)..(i + 14) :
               j <= Len(s) /\ s[j] \in {"0", "1", "2", "3", "4", "5", "6", "7", "8", "9",
                                        "a", "b", "c", "d", "e", "f"}}

\* The positions of s where the marker is followed by the placeholder.
PlaceholderPositions(s) ==
    {i \in 1..Len(s) : StartsWith(From(s, i), HashPrefix \o HashPlaceholder)}

\* s without what follows each marker: the placeholder, or a token of 7 to 40
\* hex digits.
RECURSIVE WithoutTokens(_)
WithoutTokens(s) ==
    IF s = <<>> THEN <<>>
    ELSE IF 1 \in PlaceholderPositions(s)
    THEN HashPrefix \o WithoutTokens(From(s, Len(HashPrefix) + Len(HashPlaceholder) + 1))
    ELSE IF 1 \in HashPositions(s)
    THEN LET n == LeadingHex(From(s, Len(HashPrefix) + 1))
         IN  HashPrefix
               \o WithoutTokens(From(s, Len(HashPrefix) + (IF n > 40 THEN 40 ELSE n) + 1))
    ELSE <<s[1]>> \o WithoutTokens(Tail(s))

\* C17: with hash normalization on, every occurrence in the rendered text of
\* the conflict marker followed by a token of 7 to 40 hex digits is replaced
\* by the marker followed by "[hash]", no such token remains after a marker,
\* all other text is unchanged and the number of lines is unchanged.
C17_HashNormalization ==
    pc = "rendered" /\ renderer.normalize_git_hashes =>
        /\ HashPositions(prev) = {}
        /\ Cardinality(PlaceholderPositions(prev))
              = Cardinality(PlaceholderPositions(Unnormalized))
                  + Cardinality(HashPositions(Unnormalized))
        /\ WithoutTokens(prev) = WithoutTokens(Unnormalized)
        /\ Len(Lines(prev)) = Len(Lines(Unnormalized))

\* A rendering with three hashes after markers, one of them longer than 40
\* digits, is normalized.
C17_Witness ==
    /\ pc = "rendered"
    /\ renderer.normalize_git_hashes
    /\ Cardinality(HashPositions(Unnormalized)) = 2
    /\ Cardinality(PlaceholderPositions(prev)) = 2
    /\ Contains(prev, HashPlaceholder \o <<"c", "\n">>)
    /\ Contains(prev, HashPrefix \o <<"0", "1", "2", "3", "a", "b", "\n">>)

\* The rendering, redaction included, with hash normalization the other way.
OtherNormalization ==
    render([renderer EXCEPT !.normalize_git_hashes = ~@], fixture)

\* C18: the numbers given to redact_lines are 1-indexed positions in the
\* final rendered text, counted after path filtering and with the marker
\* lines; redaction is applied after hash normalization, and the line replaced
\* for number k is the same with and without hash normalization.
C18_RedactionNumbering ==
    pc = "rendered" /\ renderer.lines_to_redact # {} =>
        LET final == Lines(prev)
            got   == Lines(out)
            other == Lines(OtherNormalization)
        IN  /\ \A k \in 1..Len(final) :
                   IF k \in renderer.lines_to_redact
                   THEN /\ k <= Len(got) /\ got[k] = renderer.redact_message
                        /\ k <= Len(other) /\ other[k] = renderer.redact_message
                   ELSE k <= Len(got) => got[k] = final[k]
            /\ \A k \in 1..Len(got) :
                   (got[k] = renderer.redact_message
                      /\ (k <= Len(final) => final[k] # renderer.redact_message))
                       => k \in renderer.lines_to_redact
            /\ \A k \in 1..Len(final) :
                   (~renderer.normalize_git_hashes /\ k \notin renderer.lines_to_redact
                      /\ k <= Len(other)) => other[k] = Lines(NormalizeHashes(prev))[k]

\* With a filter that leaves two files and hash normalization on, line 1 (a
\* marker line) and line 2 (a hash line) are redacted with a message that
\* holds a hash, which stays as given.
C18_Witness ==
    /\ pc = "rendered"
    /\ renderer.normalize_git_hashes
    /\ renderer.lines_to_redact = {1, 2}
    /\ renderer.redact_message = HashMessage
    /\ Len(Surviving) = 2
    /\ StartsWith(prev, HeaderLine(Surviving[1].path) \o HashPrefix \o HashPlaceholder)
    /\ StartsWith(out, HashMessage \o <<"\n">> \o HashMessage \o <<"\n">>)


(***************************************************************************)
(* SpecRedact: the line redaction of render, with redact messages that may *)
(* themselves hold a line terminator.                                      *)
(***************************************************************************)
\* "b\n", a redact message that ends with a newline.
TerminatedMessage == <<"b", "\n">>

\* .redact_message(message), the message being any string.
SetAnyRedactMessage ==
    /\ pc = "building"
    /\ \E message \in {CustomMessage, TerminatedMessage} :
          renderer' = [renderer EXCEPT !.redact_message = message]
    /\ UNCHANGED <<diskVars, pc, text, dpath, prev, parsed, fixture, out>>

NextRedact ==
    \/ SetRedactLines
    \/ SetAnyRedactMessage
    \/ SetAlwaysShowFilepath
    \/ Render

SpecRedact == InitRender /\ [][NextRedact]_vars

\* The number of newline characters of s.
NewlineCount(s) == Cardinality({i \in 1..Len(s) : s[i] = "\n"})

\* The lines of the unredacted rendering, those whose number is in the redact
\* set replaced by the message.
ReplacedLines ==
    [k \in 1..Len(Lines(prev)) |->
        IF k \in renderer.lines_to_redact THEN renderer.redact_message
        ELSE Lines(prev)[k]]

\* C25 as stated: with a non-empty redact set render returns the lines of the
\* unredacted rendering, redacted ones replaced, joined by single newlines
\* without a terminator, and so a text other than the unredacted rendering
\* whenever that one ends with a newline; with an empty redact set it returns
\* the unredacted rendering.
C25_RedactionDropsTerminator ==
    pc = "rendered" =>
        IF renderer.lines_to_redact = {}
        THEN out = prev
        ELSE /\ out = JoinNewline(ReplacedLines)
             /\ EndsWith(prev, <<"\n">>) => out # prev

\* C25 amended: the output differs from an unredacted rendering that ends
\* with a newline whenever the redact message holds no newline (and has then
\* one newline less than it); the rest is as stated.
C25_RedactionDropsTerminatorOfLines ==
    pc = "rendered" =>
        IF renderer.lines_to_redact = {}
        THEN out = prev
        ELSE /\ out = JoinNewline(ReplacedLines)
             /\ (EndsWith(prev, <<"\n">>)
                   /\ ~Contains(renderer.redact_message, <<"\n">>))
                  => /\ out # prev
                     /\ NewlineCount(out) = NewlineCount(prev) - 1

\* The only number of the redact set is beyond the last line of a two-line
\* rendering that ends with a newline: the output is the rendering without
\* its last newline.
C25_Witness ==
    /\ pc = "rendered"
    /\ renderer.lines_to_redact = {3}
    /\ prev = <<"a", "\n", "b", "\n">>
    /\ out = <<"a", "\n", "b">>

\* The last line is replaced by a message that is that line and a newline:
\* the output is the unredacted rendering.
RedactionGivesBackRendering ==
    /\ pc = "rendered"
    /\ renderer.lines_to_redact = {2}
    /\ renderer.redact_message = TerminatedMessage
    /\ prev = <<"a", "\n", "b", "\n">>
    /\ out = prev

(***************************************************************************)
(* SpecEq: assert_fixture_eq(expected, actual); fixture holds expected and *)
(* parsed holds actual, obs the outcome.                                   *)
(***************************************************************************)
EqFiles ==
    {FixtureFile(p, t) : p \in {<<"/", "a">>, <<"/", "b">>, <<"/", "c">>},
                         t \in {<<"x">>, <<"y">>}}

InitEq ==
    /\ fixture \in StringsUpTo(EqFiles, MaxEqFiles)
    /\ parsed \in {Returned(files) : files \in StringsUpTo(EqFiles, MaxEqFiles)}
    /\ pc = "start"
    /\ text = <<>>
    /\ dpath = MainRs
    /\ prev = <<>>
    /\ renderer = NewRenderer
    /\ out = <<>>
    /\ DiskIdle

\* assert_fixture_eq(&expected, &actual);
AssertFixtureEq ==
    /\ pc = "start"
    /\ LET r == assert_fixture_eq(fixture, parsed.files)
       IN  /\ obs' = [op |-> "assert_fixture_eq", ok |-> r.ok, panic |-> r.panic]
           /\ pc' = IF r.ok THEN "asserted" ELSE "panicked"
    /\ UNCHANGED <<textVars, fixture, disk, temp, nmut>>

NextEq == AssertFixtureEq

SpecEq == InitEq /\ [][NextEq]_vars

\* No two files of the fixture share a path.
NoDuplicatePaths(files) ==
    \A i, j \in 1..Len(files) : files[i].path = files[j].path => i = j

Entries(files) == {files[i] : i \in 1..Len(files)}

\* C14: for fixtures without duplicate paths, assert_fixture_eq succeeds
\* exactly when the two hold the same set of (path, text) entries, whatever
\* the order; it fails when the counts differ, when a path of expected is
\* absent from actual, or when the text at a shared path differs.
C14_EqualityChecker ==
    (obs.op = "assert_fixture_eq"
        /\ NoDuplicatePaths(fixture) /\ NoDuplicatePaths(parsed.files)) =>
        /\ obs.ok <=> Entries(fixture) = Entries(parsed.files)
        /\ Len(fixture) # Len(parsed.files) => ~obs.ok
        /\ (\E e \in Entries(fixture) : \A a \in Entries(parsed.files) : a.path # e.path)
              => ~obs.ok
        /\ (\E e \in Entries(fixture), a \in Entries(parsed.files) :
                a.path = e.path /\ a.text # e.text) => ~obs.ok

\* Two fixtures holding the same two files in opposite orders compare equal.
C14_Witness ==
    /\ obs.op = "assert_fixture_eq"
    /\ obs.ok
    /\ Len(fixture) = 2
    /\ NoDuplicatePaths(fixture)
    /\ parsed.files = <<fixture[2], fixture[1]>>

\* With duplicate paths the comparison can pass on fixtures that differ.
EqualWithDuplicatesWitness ==
    /\ obs.op = "assert_fixture_eq"
    /\ obs.ok
    /\ Entries(fixture) # Entries(parsed.files)

(***************************************************************************)
(* SpecDisk: a fixture is materialized, then the test and the code under   *)
(* test write, add and delete files, and the test reads back.  obs holds   *)
(* the result of the last read while the disk is as it was read.           *)
(***************************************************************************)
\* The files a fixture is made of: a path written twice with two texts, a
\* second spelling of it, a nested file, a file where the nested file needs a
\* directory, and a path that climbs out of the root.
DiskFiles ==
    {FixtureFile(<<"/", "a">>, <<"x">>),
     FixtureFile(<<"/", "a">>, <<"y">>),
     FixtureFile(<<"/", "/", "a">>, <<"x">>),
     FixtureFile(<<"/", "d", "/", "a">>, <<"x">>),
     FixtureFile(<<"/", "d">>, <<"x">>),
     FixtureFile(<<"/", ".", ".", "/", "a">>, <<"x">>)}

\* The arguments of TempFixture::write, of the writes of the code under test,
\* of TempFixture::cwd and of TempFixture::read.
WriteArgs == {<<"/", "a">>, <<"d", "/", "b">>}
ExternalArgs == {<<"b">>, <<"d", "/", "a">>}
ExternalContents == {Utf8(<<"z">>), NotUtf8}
CwdArgs == {<<"d">>, <<"/", "d">>, <<"a">>}
ReadArgs == {<<"/", "a">>, <<"b">>}

InitDisk ==
    /\ fixture \in StringsUpTo(DiskFiles, MaxDiskFiles)
    /\ pc = "start"
    /\ text = <<>>
    /\ dpath = MainRs
    /\ prev = <<>>
    /\ parsed = NoResult
    /\ renderer = NewRenderer
    /\ out = <<>>
    /\ DiskIdle

\* let temp = fixture.write_to_tempdir();
Materialize ==
    /\ pc = "start"
    /\ LET r == write_to_tempdir(disk, fixture)
       IN  /\ disk' = r.disk
           /\ temp' = r.temp
           /\ pc' = IF r.ok THEN "live" ELSE "panicked"
    /\ UNCHANGED <<textVars, fixture, obs, nmut>>

\* temp.write(relative, content); a panic unwinds through temp.
Write(relative, content) ==
    /\ pc = "live"
    /\ nmut < MaxMutations
    /\ LET w == WriteAt(disk, temp.root, relative, Utf8(content))
       IN  IF w.ok
           THEN /\ disk' = w.disk
                /\ obs' = [op |-> "write", arg |-> relative, text |-> content]
                /\ UNCHANGED <<temp, pc>>
           ELSE /\ disk' = RemoveTree(w.disk, temp.root)
                /\ obs' = NoObs
                /\ temp' = NoTemp
                /\ pc' = "panicked"
    /\ nmut' = nmut + 1
    /\ UNCHANGED <<textVars, fixture>>

\* The code under test creates or overwrites a file under the root.
ExternalWrite(relative, content) ==
    /\ pc = "live"
    /\ nmut < MaxMutations
    /\ LET w == WriteAt(disk, temp.root, relative, content)
       IN  /\ w.ok
           /\ disk' = w.disk
    /\ nmut' = nmut + 1
    /\ obs' = NoObs
    /\ UNCHANGED <<textVars, fixture, temp, pc>>

\* The code under test deletes a file under the root.
ExternalDelete(loc) ==
    /\ pc = "live"
    /\ nmut < MaxMutations
    /\ loc \in DOMAIN disk.files
    /\ IsPrefix(temp.root, loc)
    /\ disk' = RemoveFile(disk, loc)
    /\ nmut' = nmut + 1
    /\ obs' = NoObs
    /\ UNCHANGED <<textVars, fixture, temp, pc>>

\* let temp = temp.cwd(path);
SetCwd(path) ==
    /\ pc = "live"
    /\ temp' = cwd(temp, path)
    /\ obs' = NoObs
    /\ UNCHANGED <<textVars, fixture, disk, nmut, pc>>

\* temp.read(relative); a panic unwinds through temp.
Read(relative) ==
    /\ pc = "live"
    /\ LET r == read_to_string(disk, temp, relative)
       IN  /\ obs' = [op |-> "read", arg |-> relative, ok |-> r.ok, text |-> r.text]
           /\ IF r.ok
              THEN UNCHANGED <<disk, temp, pc>>
              ELSE /\ disk' = RemoveTree(disk, temp.root)
                   /\ temp' = NoTemp
                   /\ pc' = "panicked"
    /\ UNCHANGED <<textVars, fixture, nmut>>

\* temp.read_all(); a panic unwinds through temp.
ReadAll ==
    /\ pc = "live"
    /\ LET r == read_all(disk, temp)
       IN  /\ obs' = [op |-> "read_all", ok |-> r.ok, files |-> r.files]
           /\ IF r.ok
              THEN UNCHANGED <<disk, temp, pc>>
              ELSE /\ disk' = RemoveTree(disk, temp.root)
                   /\ temp' = NoTemp
                   /\ pc' = "panicked"
    /\ UNCHANGED <<textVars, fixture, nmut>>

\* temp.path(relative);
Path(relative) ==
    /\ pc = "live"
    /\ obs' = [op |-> "path", arg |-> relative, loc |-> temp_path(temp, relative)]
    /\ UNCHANGED <<textVars, fixture, disk, temp, nmut, pc>>

\* temp.read_all_from_disk();
ReadAllFromDisk ==
    /\ pc = "live"
    /\ obs' = [op |-> "read_all_from_disk", files |-> read_all_from_disk(disk, temp)]
    /\ UNCHANGED <<textVars, fixture, disk, temp, nmut, pc>>

NextDisk ==
    \/ Materialize
    \/ \E relative \in WriteArgs : Write(relative, <<"z">>)
    \/ \E relative \in ExternalArgs, content \in ExternalContents :
           /\ content.utf8 \/ relative = <<"b">>
           /\ ExternalWrite(relative, content)
    \/ \E loc \in DOMAIN disk.files : ExternalDelete(loc)
    \/ \E path \in CwdArgs : SetCwd(path)
    \/ \E relative \in ReadArgs \cup {fixture[i].path : i \in 1..Len(fixture)} :
           Read(relative)
    \/ \E relative \in WriteArgs : Path(relative)
    \/ ReadAllFromDisk
    \/ ReadAll

SpecDisk == InitDisk /\ [][NextDisk]_vars

\* The file on disk that a path of the fixture names, under the root.
Target(path) == Resolve(disk, temp.root, Components(TrimStartSlashes(path))).loc

\* read(path) has just returned `t`, on the disk as write_to_tempdir left it.
ReadBack(path, t) ==
    /\ obs.op = "read"
    /\ nmut = 0
    /\ obs.arg = path
    /\ obs.ok
    /\ obs.text = t

\* C4, as stated: for every fixture and every file f in it, read(f.path)
\* straight after write_to_tempdir returns f.text.
C4_MaterializationFidelity ==
    obs.op = "read" /\ nmut = 0 =>
        \A i \in 1..Len(fixture) :
            obs.arg = fixture[i].path => ReadBack(fixture[i].path, fixture[i].text)

\* C4, amended: for every fixture that write_to_tempdir materializes and every
\* file f in it that no later entry of the fixture writes over (no later
\* entry's path names the same file on disk), read(f.path) straight after
\* write_to_tempdir returns f.text.
C4_FidelityOfLastWriter ==
    obs.op = "read" /\ nmut = 0 =>
        \A i \in 1..Len(fixture) :
            /\ obs.arg = fixture[i].path
            /\ \A j \in (i + 1)..Len(fixture) :
                   Target(fixture[j].path) # Target(fixture[i].path)
            => ReadBack(fixture[i].path, fixture[i].text)

\* A fixture whose two entries name the same file with two texts is
\* materialized, and reading the second entry's path gives its text.
C4_Witness ==
    /\ Len(fixture) = 2
    /\ pc = "live"
    /\ Target(fixture[1].path) = Target(fixture[2].path)
    /\ fixture[1].text # fixture[2].text
    /\ ReadBack(fixture[2].path, fixture[2].text)

\* The files on disk under the effective scope.
FilesInScope ==
    LET scope == effective_cwd(disk, temp)
    IN  IF scope.ok THEN {l \in DOMAIN disk.files : IsPrefix(scope.loc, l)} ELSE {}

\* C10: after materialization and any writes, additions and deletions under
\* the root, read_all_from_disk returns exactly the files on disk under the
\* effective scope, each once, with its current content and its path relative
\* to the scope prefixed by "/", in ascending order of path.
C10_LiveReadBack ==
    obs.op = "read_all_from_disk" =>
        LET scope == effective_cwd(disk, temp).loc
            got   == obs.files
        IN  /\ {got[k].path : k \in 1..Len(got)}
                 = {RelativeStr(scope, l) : l \in FilesInScope}
            /\ Len(got) = Cardinality(FilesInScope)
            /\ \A k \in 1..Len(got) :
                   \E l \in FilesInScope :
                       /\ got[k].path = RelativeStr(scope, l)
                       /\ disk.files[l] = Utf8(got[k].text)
            /\ \A k \in 1..(Len(got) - 1) : StrLess(got[k].path, got[k + 1].path)

\* What the code does guarantee: the same for the files under the scope whose
\* content is valid UTF-8; the others are left out silently.
ReadBackOfReadableFiles ==
    obs.op = "read_all_from_disk" =>
        LET scope    == effective_cwd(disk, temp).loc
            got      == obs.files
            readable == {l \in FilesInScope : disk.files[l].utf8}
        IN  /\ {got[k].path : k \in 1..Len(got)}
                 = {RelativeStr(scope, l) : l \in readable}
            /\ Len(got) = Cardinality(readable)
            /\ \A k \in 1..Len(got) :
                   \E l \in readable :
                       /\ got[k].path = RelativeStr(scope, l)
                       /\ disk.files[l] = Utf8(got[k].text)
            /\ \A k \in 1..(Len(got) - 1) : StrLess(got[k].path, got[k + 1].path)

\* An added file is found and a deleted one is gone, in one read-back.
ReadBackSeesAdditionAndDeletion ==
    /\ obs.op = "read_all_from_disk"
    /\ nmut = 2
    /\ \E k \in 1..Len(obs.files) :
           \A i \in 1..Len(fixture) : Target(fixture[i].path) # Target(obs.files[k].path)
    /\ \E i \in 1..Len(fixture) :
           /\ IsPrefix(temp.root, Target(fixture[i].path))
           /\ Target(fixture[i].path) \notin DOMAIN disk.files

\* The location root/cwd, for a cwd that is set.
CwdLocation == Resolve(disk, temp.root, Components(temp.cwd.v))

\* cwd is set, and names a directory below the root.
ScopedToSubdirectory ==
    /\ temp.cwd.some
    /\ CwdLocation.ok
    /\ CwdLocation.loc \in disk.dirs
    /\ IsPrefix(temp.root, CwdLocation.loc)
    /\ CwdLocation.loc # temp.root

\* C11: with cwd set to a subdirectory d, read_all_from_disk returns only
\* files located under root/d, each reported with its path relative to root/d
\* (a file at /d/x is reported as /x) and its content, and every text file
\* under root/d is returned; cwd("/d") and cwd("d") give the same result.
C11_ScopedReadBack ==
    /\ obs.op = "read_all_from_disk" /\ ScopedToSubdirectory =>
          LET scope == CwdLocation.loc
              got   == obs.files
          IN  /\ \A k \in 1..Len(got) :
                     \E l \in DOMAIN disk.files :
                         /\ IsPrefix(scope, l)
                         /\ got[k].path = <<"/">> \o JoinSlash(SubSeq(l, Len(scope) + 1, Len(l)))
                         /\ disk.files[l] = Utf8(got[k].text)
              /\ \A l \in DOMAIN disk.files :
                     IsPrefix(scope, l) /\ disk.files[l].utf8 =>
                         \E k \in 1..Len(got) : disk.files[l] = Utf8(got[k].text)
    /\ pc = "live" =>
          read_all_from_disk(disk, cwd(temp, <<"/", "d">>))
              = read_all_from_disk(disk, cwd(temp, <<"d">>))

\* The read-back is scoped to d while the root holds a file under d and a
\* file outside d; only the file under d is returned, as /a.
C11_Witness ==
    /\ obs.op = "read_all_from_disk"
    /\ ScopedToSubdirectory
    /\ \E l \in DOMAIN disk.files :
           IsPrefix(temp.root, l) /\ ~IsPrefix(CwdLocation.loc, l)
    /\ obs.files = <<FixtureFile(<<"/", "a">>, <<"x">>)>>

\* The file that `relative` names under the root, whatever cwd is.
UnderRoot(relative) ==
    Resolve(disk, temp.root, Components(TrimStartSlashes(relative))).loc

\* A step of a live handle that changes its cwd leaves the disk, the root and
\* the recorded files as they are.
CwdChangesOnlyTheAnchor ==
    (pc = "live" /\ pc' = "live" /\ temp'.cwd # temp.cwd) =>
        /\ disk' = disk
        /\ temp'.root = temp.root
        /\ temp'.files = temp.files
        /\ temp'.alive = temp.alive

\* C19: path, read and write resolve their argument against root, whatever
\* cwd is; cwd(subpath) changes only the anchor of read_all_from_disk and
\* leaves the files on disk, root and the recorded files unchanged.
C19_UnscopedAccessors ==
    /\ [](/\ (obs.op = "read" /\ obs.ok) =>
                /\ UnderRoot(obs.arg) \in DOMAIN disk.files
                /\ disk.files[UnderRoot(obs.arg)] = Utf8(obs.text)
          /\ obs.op = "write" =>
                /\ UnderRoot(obs.arg) \in DOMAIN disk.files
                /\ disk.files[UnderRoot(obs.arg)] = Utf8(obs.text)
          /\ obs.op = "path" =>
                /\ IsPrefix(temp.root, obs.loc)
                /\ Resolve(disk, <<>>, obs.loc).loc = UnderRoot(obs.arg))
    /\ [][CwdChangesOnlyTheAnchor]_vars

\* With cwd set to d, where another file a is, read("/a") returns the text of
\* the file a of the root.
C19_Witness ==
    /\ obs.op = "read"
    /\ obs.arg = <<"/", "a">>
    /\ obs.ok
    /\ temp.cwd = Some(<<"d">>)
    /\ Append(Append(temp.root, <<"d">>), <<"a">>) \in DOMAIN disk.files
    /\ disk.files[Append(Append(temp.root, <<"d">>), <<"a">>)] # Utf8(obs.text)
    /\ disk.files[Append(temp.root, <<"a">>)] = Utf8(obs.text)

\* The recorded file i is on disk, as text.
OriginalReadable(i) ==
    /\ UnderRoot(fixture[i].path) \in DOMAIN disk.files
    /\ disk.files[UnderRoot(fixture[i].path)].utf8

\* What a call of read_all on the present disk must give.
ReadAllResnapshots ==
    (pc = "live" /\ obs'.op = "read_all") =>
        /\ obs'.ok <=> \A i \in 1..Len(fixture) : OriginalReadable(i)
        /\ obs'.ok =>
              /\ Len(obs'.files) = Len(fixture)
              /\ \A i \in 1..Len(fixture) :
                     /\ obs'.files[i].path = fixture[i].path
                     /\ disk.files[UnderRoot(fixture[i].path)] = Utf8(obs'.files[i].text)
        /\ ~obs'.ok => pc' = "panicked"

\* C20: after materialization and any writes, read_all returns exactly the
\* originally materialized paths in their original order, each with the
\* content now on disk at that path (files added later are not included); it
\* fails if an original file is absent or unreadable.
C20_ReadAllResnapshot == [][ReadAllResnapshots]_vars

\* After a write over an original file and the addition of another file,
\* read_all returns the original paths with the new content.
C20_Witness ==
    /\ obs.op = "read_all"
    /\ obs.ok
    /\ nmut = 2
    /\ Len(fixture) = 2
    /\ \E i \in 1..Len(fixture) : obs.files[i].text # fixture[i].text
    /\ \E l \in DOMAIN disk.files :
           /\ IsPrefix(temp.root, l)
           /\ \A i \in 1..Len(fixture) : UnderRoot(fixture[i].path) # l
    /\ [i \in 1..Len(obs.files) |-> obs.files[i].path]
          = [i \in 1..Len(fixture) |-> fixture[i].path]

\* read_all fails after an original file was deleted.
ReadAllFailsWitness ==
    /\ obs.op = "read_all"
    /\ ~obs.ok
    /\ pc = "panicked"
    /\ nmut = 1

\* C21: files are written in fixture order with no deduplication: when two
\* entries share a path (and no entry after them names the same file by
\* another spelling), the disk holds the text of the later entry after
\* write_to_tempdir, and the files recorded in the TempFixture are all the
\* entries of the fixture.
C21_DuplicatePaths ==
    pc = "live" /\ nmut = 0 =>
        /\ temp.files = fixture
        /\ \A i, j \in 1..Len(fixture) :
               (/\ i < j
                /\ fixture[i].path = fixture[j].path
                /\ \A k \in (j + 1)..Len(fixture) :
                       Target(fixture[k].path) # Target(fixture[j].path))
               => /\ Target(fixture[j].path) \in DOMAIN disk.files
                  /\ disk.files[Target(fixture[j].path)] = Utf8(fixture[j].text)

\* A fixture with one path twice, with two texts, is materialized: the disk
\* holds the second text and the TempFixture records both entries.
C21_Witness ==
    /\ pc = "live"
    /\ nmut = 0
    /\ obs = NoObs
    /\ Len(fixture) = 2
    /\ fixture[1].path = fixture[2].path
    /\ fixture[1].text # fixture[2].text
    /\ disk.files[Target(fixture[2].path)] = Utf8(fixture[2].text)
    /\ Len(temp.files) = 2

\* C22: read_all_from_disk never returns a Fixture while a file under the
\* scope cannot be read: a read that fails makes the call fail.
C22_NoPartialResults ==
    obs.op = "read_all_from_disk" =>
        \A l \in FilesInScope : disk.files[l].utf8

\* read_all_from_disk has returned while a file under the scope is not
\* readable as text, and the Fixture returned has no entry for it.
PartialResultWitness ==
    /\ obs.op = "read_all_from_disk"
    /\ \E l \in FilesInScope :
           /\ ~disk.files[l].utf8
           /\ \A k \in 1..Len(obs.files) :
                  obs.files[k].path # RelativeStr(effective_cwd(disk, temp).loc, l)


\* C26 as stated: every file that write_to_tempdir or TempFixture::write has
\* created lies inside the temporary root; no file is ever created outside it
\* (the test starts on a disk without files, and whatever else writes in the
\* model writes below root).
C26_WritesInsideRoot ==
    \A l \in DOMAIN disk.files : IsPrefix(TempRoot, l)

\* The path string has a component "..".
HasParentComponent(path) ==
    \E k \in 1..Len(Components(path)) : Components(path)[k] = <<".", ".">>

\* What the code does for C26: the files stay inside root as long as no path
\* of the fixture has a ".." component, and the file of a path without one is
\* at root followed by the components of the path.
WritesInsideRootWithoutParentComponents ==
    (\A i \in 1..Len(fixture) : ~HasParentComponent(fixture[i].path)) =>
        /\ \A l \in DOMAIN disk.files : IsPrefix(TempRoot, l)
        /\ (pc = "live" /\ nmut = 0) =>
              \A i \in 1..Len(fixture) :
                  (TempRoot \o Components(fixture[i].path)) \in DOMAIN disk.files

\* The fixture [/../a: "x"] has been materialized: the file is in the
\* directory that holds the temporary root, beside it.
WriteEscapesRoot ==
    /\ pc = "live"
    /\ fixture = <<FixtureFile(<<"/", ".", ".", "/", "a">>, <<"x">>)>>
    /\ Append(TempBase, <<"a">>) \in DOMAIN disk.files
    /\ disk.files[Append(TempBase, <<"a">>)] = Utf8(<<"x">>)

(***************************************************************************)
(* SpecDir: files are put into a directory tree, then                      *)
(* Fixture::read_from_directory reads a path; obs holds what it returned.  *)
(***************************************************************************)
\* The directory that is read: /tmp/r.
DirRoot == Append(TempBase, <<"r">>)

GitIgnore == <<".", "g", "i", "t", "i", "g", "n", "o", "r", "e">>

\* Where files are put, relative to DirRoot.
DirFileLocs ==
    {<< <<"a">> >>, << <<"d">>, <<"a">> >>, << DotGit, <<"c">> >>,
     << <<"d">>, DotGit, <<"c">> >>, << GitIgnore >>}

\* The paths read: the directory, a subdirectory, a path where nothing is,
\* and a path where a regular file is.
DirReadLocs ==
    {DirRoot, Append(DirRoot, <<"d">>), Append(TempBase, <<"n">>),
     Append(DirRoot, <<"a">>)}

InitDir ==
    /\ disk = [EmptyDisk EXCEPT !.dirs = @ \cup {DirRoot}]
    /\ temp = NoTemp
    /\ obs = NoObs
    /\ nmut = 0
    /\ pc = "setup"
    /\ fixture = <<>>
    /\ text = <<>>
    /\ dpath = MainRs
    /\ prev = <<>>
    /\ parsed = NoResult
    /\ renderer = NewRenderer
    /\ out = <<>>

\* A file is created under the directory, with the directories that lead to
\* it.
AddFile(rel, content) ==
    /\ pc = "setup"
    /\ nmut < MaxDirFiles
    /\ DirRoot \o rel \notin DOMAIN disk.files
    /\ LET made == CreateDirAll(disk, DirRoot, SubSeq(rel, 1, Len(rel) - 1))
       IN  /\ made.ok
           /\ disk' = PutFile(made.disk, DirRoot \o rel, content)
    /\ nmut' = nmut + 1
    /\ UNCHANGED <<textVars, fixture, temp, obs, pc>>

\* let f = Fixture::read_from_directory(path);
ReadFromDirectory(path) ==
    /\ pc = "setup"
    /\ LET r == read_from_directory(disk, path)
       IN  obs' = [op |-> "read_from_directory", path |-> path,
                   some |-> r.some, files |-> r.v]
    /\ pc' = "read"
    /\ UNCHANGED <<textVars, fixture, disk, temp, nmut>>

NextDir ==
    \/ \E rel \in DirFileLocs, content \in {Utf8(<<"x">>), NotUtf8} : AddFile(rel, content)
    \/ \E path \in DirReadLocs : ReadFromDirectory(path)

SpecDir == InitDir /\ [][NextDir]_vars

\* The file at l is inside a directory named ".git" below `base`.
InsideGitDirectory(base, l) ==
    \E i \in (Len(base) + 1)..(Len(l) - 1) : l[i] = DotGit

\* C16: for a path that is not a regular file, read_from_directory returns
\* None exactly when the directory does not exist; otherwise it returns every
\* readable text file found below the directory, the contents of ".git"
\* directories alone being skipped, each with path "/" + its path relative to
\* the directory, sorted by path.
C16_ReadFromDirectory ==
    obs.op = "read_from_directory" /\ obs.path \notin DOMAIN disk.files =>
        /\ ~obs.some <=> obs.path \notin disk.dirs
        /\ obs.some =>
              obs.files = SortByPath(
                  {FixtureFile(RelativeStr(obs.path, l), disk.files[l].data) :
                      l \in {k \in DOMAIN disk.files :
                                /\ IsPrefix(obs.path, k)
                                /\ disk.files[k].utf8
                                /\ ~InsideGitDirectory(obs.path, k)}})

\* What the code does guarantee: None exactly when nothing exists at the
\* path, and otherwise the readable text files whose path does not contain
\* ".git" anywhere.
ReadFromDirectoryOutsideDotGitNames ==
    obs.op = "read_from_directory" =>
        /\ ~obs.some <=> (obs.path \notin disk.dirs /\ obs.path \notin DOMAIN disk.files)
        /\ obs.some =>
              /\ \A k \in 1..Len(obs.files) :
                     \E l \in DOMAIN disk.files :
                         /\ IsPrefix(obs.path, l)
                         /\ obs.files[k] = FixtureFile(RelativeStr(obs.path, l), disk.files[l].data)
                         /\ disk.files[l].utf8
              /\ \A l \in DOMAIN disk.files :
                     (IsPrefix(obs.path, l) /\ disk.files[l].utf8
                        /\ ~Contains(PathStr(l), DotGit)) =>
                         \E k \in 1..Len(obs.files) :
                             obs.files[k].path = RelativeStr(obs.path, l)
              /\ \A k \in 1..(Len(obs.files) - 1) :
                     StrLess(obs.files[k].path, obs.files[k + 1].path)

\* A directory with a file, a nested file and a file in .git is read: the
\* two files outside .git are returned, sorted.
ReadFromDirectoryWitness ==
    /\ obs.op = "read_from_directory"
    /\ obs.some
    /\ obs.files = <<FixtureFile(<<"/", "a">>, <<"x">>),
                     FixtureFile(<<"/", "d", "/", "a">>, <<"x">>)>>
    /\ \E l \in DOMAIN disk.files : InsideGitDirectory(obs.path, l)

(***************************************************************************)
(* SpecLife: a test that materializes fixtures into several TempFixture    *)
(* handles, moves them through cwd(), writes through them and drops them.  *)
(* temp maps each handle of the test to its TempFixture; obs records the   *)
(* last drop.                                                              *)
(***************************************************************************)
Handles == 1..MaxHandles

\* Fixtures: empty, one file, one whose path leads into a sibling of the
\* root, and one that cannot be written (a file where a directory is needed).
LifeFixtures ==
    {<<>>,
     <<FixtureFile(<<"/", "a">>, <<"x">>)>>,
     <<FixtureFile(<<"/", ".", ".", "/", "v", "_", "2", "/", "a">>, <<"x">>)>>,
     <<FixtureFile(<<"/", "a">>, <<"x">>), FixtureFile(<<"/", "a", "/", "b">>, <<"y">>)>>}

InitLife ==
    /\ temp = [h \in Handles |-> NoTemp]
    /\ disk = EmptyDisk
    /\ obs = NoObs
    /\ nmut = 0
    /\ pc = "running"
    /\ fixture = <<>>
    /\ text = <<>>
    /\ dpath = MainRs
    /\ prev = <<>>
    /\ parsed = NoResult
    /\ renderer = NewRenderer
    /\ out = <<>>

\* The disk after a panic of the test has unwound through every live handle.
Unwound(d) ==
    [dirs  |-> {l \in d.dirs :
                  \A k \in Handles : temp[k].alive => ~IsPrefix(temp[k].root, l)},
     files |-> [l \in {f \in DOMAIN d.files :
                         \A k \in Handles : temp[k].alive => ~IsPrefix(temp[k].root, f)}
                  |-> d.files[l]]]

NoneAlive == [k \in Handles |-> [temp[k] EXCEPT !.alive = FALSE]]

\* let h = files.write_to_tempdir();
MaterializeHandle(h, files) ==
    /\ pc = "running"
    /\ nmut < MaxLifeSteps
    /\ ~temp[h].alive
    /\ \E root \in FreshTempRoots(disk) :
          LET r == write_to_tempdir_in(disk, files, root)
          IN  IF r.ok
              THEN /\ disk' = r.disk
                   /\ temp' = [temp EXCEPT ![h] = r.temp]
                   /\ UNCHANGED pc
              ELSE /\ disk' = Unwound(r.disk)
                   /\ temp' = NoneAlive
                   /\ pc' = "panicked"
    /\ nmut' = nmut + 1
    /\ UNCHANGED <<textVars, fixture, obs>>

\* let h = h.cwd("d");
CwdHandle(h) ==
    /\ pc = "running"
    /\ temp[h].alive
    /\ temp' = [temp EXCEPT ![h] = cwd(temp[h], <<"d">>)]
    /\ UNCHANGED <<textVars, fixture, disk, obs, nmut, pc>>

\* h.write(relative, "z"); a panic ends the test, and unwinding drops every
\* handle.
WriteHandle(h, relative) ==
    /\ pc = "running"
    /\ nmut < MaxLifeSteps
    /\ temp[h].alive
    /\ LET w == WriteAt(disk, temp[h].root, relative, Utf8(<<"z">>))
       IN  IF w.ok
           THEN /\ disk' = w.disk
                /\ UNCHANGED <<temp, pc>>
           ELSE /\ disk' = Unwound(w.disk)
                /\ temp' = NoneAlive
                /\ pc' = "panicked"
    /\ nmut' = nmut + 1
    /\ UNCHANGED <<textVars, fixture, obs>>

\* drop(h);
DropHandle(h) ==
    /\ pc = "running"
    /\ temp[h].alive
    /\ disk' = RemoveTree(disk, temp[h].root)
    /\ temp' = [temp EXCEPT ![h].alive = FALSE]
    /\ obs' = [op |-> "drop", root |-> temp[h].root]
    /\ UNCHANGED <<textVars, fixture, nmut, pc>>

NextLife ==
    \/ \E h \in Handles, files \in LifeFixtures : MaterializeHandle(h, files)
    \/ \E h \in Handles : CwdHandle(h)
    \/ \E h \in Handles, relative \in {<<"d", "/", "b">>, <<"a", "/", "b">>} :
           WriteHandle(h, relative)
    \/ \E h \in Handles : DropHandle(h)

SpecLife == InitLife /\ [][NextLife]_vars

\* The roots of the live handles differ, and each is a directory.
LiveRootsDistinctAndPresent ==
    \A h \in Handles :
        temp[h].alive =>
            /\ temp[h].root \in disk.dirs
            /\ \A k \in Handles \ {h} : temp[k].alive => temp[k].root # temp[h].root

\* A step that allocates a handle gives it a directory that did not exist,
\* and a step that ends a handle removes its directory.
FreshOnCreateRemovedOnDrop ==
    \A h \in Handles :
        /\ (~temp[h].alive /\ temp'[h].alive) => temp'[h].root \notin disk.dirs
        /\ (temp[h].alive /\ ~temp'[h].alive) => temp[h].root \notin disk'.dirs
        /\ (temp[h].alive /\ temp'[h].alive) => temp'[h].root = temp[h].root

\* C15: every materialization allocates a fresh directory whose root differs
\* from the root of every other live TempFixture; the directory exists for as
\* long as the handle is alive, cwd() included, and is removed when the
\* handle is dropped.
C15_DirectoryLifetime ==
    [](LiveRootsDistinctAndPresent) /\ [][FreshOnCreateRemovedOnDrop]_vars

\* One handle was dropped and its directory is gone, while another handle,
\* moved through cwd(), still has its own.
C15_Witness ==
    /\ obs.op = "drop"
    /\ obs.root \notin disk.dirs
    /\ \E h \in Handles :
           /\ temp[h].alive
           /\ temp[h].cwd.some
           /\ temp[h].root # obs.root
           /\ temp[h].root \in disk.dirs

(***************************************************************************)
(* SpecIndent: trim_indent applied to a text, and again to its result.     *)
(***************************************************************************)
IndentChars == {" ", "\t", "\n", "a"}

InitIndent ==
    /\ text \in StringsUpTo(IndentChars, MaxIndentLen)
    /\ pc = "start"
    /\ prev = <<>>
    /\ out = <<>>
    /\ dpath = <<>>
    /\ parsed = NoResult
    /\ fixture = <<>>
    /\ renderer = NewRenderer
    /\ DiskIdle

\* let once = trim_indent(text);
TrimIndentOnce ==
    /\ pc = "start"
    /\ out' = trim_indent(text)
    /\ prev' = text
    /\ pc' = "once"
    /\ UNCHANGED <<diskVars, text, dpath, parsed, fixture, renderer>>

\* let twice = trim_indent(&once);
TrimIndentTwice ==
    /\ pc = "once"
    /\ out' = trim_indent(out)
    /\ prev' = out
    /\ pc' = "twice"
    /\ UNCHANGED <<diskVars, text, dpath, parsed, fixture, renderer>>

NextIndent == TrimIndentOnce \/ TrimIndentTwice

SpecIndent == InitIndent /\ [][NextIndent]_vars

\* The text without one leading newline.
DropLeadingNewline(s) == IF s # <<>> /\ s[1] = "\n" THEN Tail(s) ELSE s

\* The minimum count of leading spaces over the non-blank lines of t, 0 when
\* every line is blank.
MinLeadingSpaces(t) ==
    LET ls == Lines(t)
    IN  MinOrZero({LeadingSpaces(ls[i]) : i \in {j \in 1..Len(ls) : Trim(ls[j]) # <<>>}})

\* `line` (with its newline, if any) after n leading spaces are removed; a
\* line shorter than n loses its leading spaces only.
Unindented(line, n) ==
    IF Len(StripLineEnd(line)) < n
    THEN From(line, LeadingSpaces(line) + 1)
    ELSE From(line, n + 1)

\* The characters of s that are not whitespace, in order.
NonWhitespace(s) == SelectSeq(s, LAMBDA c : ~IsWhitespace(c))

\* C13: trim_indent drops one leading newline, computes the minimum count of
\* leading spaces over the non-blank lines, and removes exactly that many
\* leading spaces from every line, a line shorter than the indent losing only
\* its leading spaces; no non-whitespace character is removed.
C13_NormalizerContract ==
    pc = "once" =>
        LET t     == DropLeadingNewline(prev)
            n     == MinLeadingSpaces(t)
            parts == SplitInclusive(t)
        IN  /\ out = Concat([i \in 1..Len(parts) |-> Unindented(parts[i], n)])
            /\ \A i \in 1..Len(parts) :
                   Len(StripLineEnd(parts[i])) >= n => LeadingSpaces(parts[i]) >= n
            /\ NonWhitespace(out) = NonWhitespace(prev)

\* What the code does guarantee: the contract on every text without tabs, and
\* on every text that no non-whitespace character is removed.
NormalizerContractWithoutTabs ==
    pc = "once" =>
        /\ NonWhitespace(out) = NonWhitespace(prev)
        /\ ~Contains(prev, <<"\t">>) =>
              LET t     == DropLeadingNewline(prev)
                  n     == MinLeadingSpaces(t)
                  parts == SplitInclusive(t)
              IN  out = Concat([i \in 1..Len(parts) |-> Unindented(parts[i], n)])

\* An indent of two spaces is removed from a text with a shorter blank line.
NormalizerContractWitness ==
    /\ pc = "once"
    /\ prev = <<" ", "\n", " ", " ", "a">>
    /\ out = <<"\n", "a">>

\* C3 as stated: for every text s, trim_indent(trim_indent(s)) = trim_indent(s).
C3_IdempotentAlways == pc = "twice" => out = prev

\* C3 amended: normalizing a second time changes nothing when the first
\* normalization does not begin with a newline (trim_indent drops one leading
\* newline per call).
C3_IdempotentUnlessLeadingNewline ==
    (pc = "twice" /\ ~StartsWith(prev, <<"\n">>)) => out = prev

\* A text that the first call changed by removing indentation, and that the
\* second call left alone.
C3_Witness ==
    /\ pc = "twice"
    /\ ~StartsWith(prev, <<"\n">>)
    /\ Len(prev) < Len(text)
    /\ Contains(text, <<" ", "a">>)
    /\ out = prev

=============================================================================
